---- MODULE Spec2Model ----
(***************************************************************************)
(* Rules engine and tree search of KdlRust (Kill Doctor Lucky).            *)
(*                                                                         *)
(* Card counts and attack strengths are f64 in the source.  They are kept  *)
(* here as exact integers in units of 1/CardUnit card (or clover); every   *)
(* value the rules can produce (loot increments of 11/32, defence at 50/24 *)
(* clovers per failure, weapon bonus 53/24) is a multiple of that unit.    *)
(* Heuristic scores are kept in units of 1/ScoreUnit.                      *)
(***************************************************************************)
EXTENDS Integers, Sequences, FiniteSets, TLC

\* ------------------------------------------------------------------------
\* Bounds of the model
\* ------------------------------------------------------------------------
MaxTurnId == 4
MaxSearchTurnId == 2
MaxStrangerChain == 12
MaxStepTurnId == 4

\* ------------------------------------------------------------------------
\* rule_helper.rs
\* ------------------------------------------------------------------------
CardUnit == 9600
JUST_OVER_ONE_THIRD == (11 * CardUnit) \div 32
PLAYER_STARTING_MOVE_CARDS == 2 * CardUnit
MOVE_CARDS_PER_LOOT == JUST_OVER_ONE_THIRD
PLAYER_STARTING_WEAPONS == 2 * CardUnit
WEAPONS_PER_LOOT == JUST_OVER_ONE_THIRD
STRENGTH_PER_WEAPON == (53 * CardUnit) \div 24
PLAYER_STARTING_FAILURES == 4 * CardUnit
FAILURES_PER_LOOT == JUST_OVER_ONE_THIRD
\* clovers per card as a fraction num/den
CLOVERS_PER_MOVE_CARD == <<1, 1>>
CLOVERS_PER_WEAPON == <<1, 1>>
CLOVERS_PER_FAILURE == <<50, 24>>
\* faulty variant: moving a stranger that saw the doctor forbids the attack
STRANGERS_ARE_NOSY_Faulty == TRUE
STRANGERS_ARE_NOSY == FALSE
PLAYER_STARTING_STRENGTH == 1
NUM_NORMAL_PLAYERS_WHEN_HAVE_STRANGERS == 2
NUM_ALL_PLAYERS_WHEN_HAVE_STRANGERS == 4
\* a player id is a usize; the model writes usize::MAX, the id whose successor
\* overflows, as -1, the way rule_helper.rs writes the invalid id
USIZE_MAX == -1
INVALID_PLAYER_ID == USIZE_MAX
SIDE_A_NORMAL_PLAYER_ID == 0
SIDE_B_STRANGER_PLAYER_ID == 1
SIDE_B_NORMAL_PLAYER_ID == 2
SIDE_A_STRANGER_PLAYER_ID == 3

\* f64::MAX, f64::MIN and the infinities, as integers beyond every score
HEURISTIC_SCORE_WIN == 2000000000
HEURISTIC_SCORE_LOSS == -2000000000
NEG_INFINITY == -2000000001
POS_INFINITY == 2000000001

num_all_players(num_normal_players) ==
    IF num_normal_players = NUM_NORMAL_PLAYERS_WHEN_HAVE_STRANGERS
    THEN NUM_ALL_PLAYERS_WHEN_HAVE_STRANGERS
    ELSE num_normal_players

to_normal_player_id(player_id, num_normal_players) ==
    IF num_normal_players # NUM_NORMAL_PLAYERS_WHEN_HAVE_STRANGERS
    THEN player_id
    ELSE IF player_id = SIDE_A_NORMAL_PLAYER_ID \/ player_id = SIDE_A_STRANGER_PLAYER_ID
         THEN SIDE_A_NORMAL_PLAYER_ID
         ELSE SIDE_B_NORMAL_PLAYER_ID

allied_stranger(player_id) ==
    IF player_id = SIDE_A_NORMAL_PLAYER_ID \/ player_id = SIDE_A_STRANGER_PLAYER_ID
    THEN SIDE_A_STRANGER_PLAYER_ID
    ELSE IF player_id = SIDE_B_NORMAL_PLAYER_ID \/ player_id = SIDE_B_STRANGER_PLAYER_ID
         THEN SIDE_B_STRANGER_PLAYER_ID
         ELSE INVALID_PLAYER_ID

opposing_normal_player(player_id) ==
    IF player_id = SIDE_A_NORMAL_PLAYER_ID \/ player_id = SIDE_A_STRANGER_PLAYER_ID
    THEN SIDE_B_NORMAL_PLAYER_ID
    ELSE SIDE_A_NORMAL_PLAYER_ID

opposing_stranger(player_id) == allied_stranger(opposing_normal_player(player_id))

\* ------------------------------------------------------------------------
\* board.rs
\* ------------------------------------------------------------------------
UNREACHABLE_DISTANCE == 999

positive_remainder(x, modulus) ==
    \* Rust's % truncates toward zero (the remainder of a negative x is not
    \* positive); the branch adds the modulus back
    LET remainder == IF x < 0 /\ x % modulus # 0 THEN (x % modulus) - modulus
                     ELSE x % modulus
    IN  IF remainder >= 0 THEN remainder ELSE remainder + modulus

Max2(a, b) == IF a >= b THEN a ELSE b
Min2(a, b) == IF a <= b THEN a ELSE b

RECURSIVE SortedIds(_)
SortedIds(ids) ==
    IF ids = {} THEN <<>>
    ELSE LET m == CHOOSE x \in ids : \A y \in ids : x <= y
         IN  <<m>> \o SortedIds(ids \ {m})

SeqToSet(sq) == {sq[i] : i \in 1..Len(sq)}

\* index (from 1) of the first occurrence of x in sq, 0 when absent
Position(sq, x) ==
    IF \E i \in 1..Len(sq) : sq[i] = x
    THEN CHOOSE i \in 1..Len(sq) : sq[i] = x /\ \A j \in 1..(i - 1) : sq[j] # x
    ELSE 0

\* the `for intermediate` loop of adjacency_to_distance for one (source,
\* destination): distance[source][destination] ends as the least of its old
\* value and the distances via the intermediates 1..dim-1
RelaxStep(acc, pair, dim) ==
    LET source == pair[1]
        destination == pair[2]
        distance == acc.distance
        vias == {distance[source][intermediate] + distance[intermediate][destination] :
                    intermediate \in 1..(dim - 1)}
        least_via == CHOOSE v \in vias : \A w \in vias : v <= w
    IN  IF source # destination /\ least_via < distance[source][destination]
        THEN [distance |-> [distance EXCEPT ![source][destination] = least_via],
              is_improving_distance |-> TRUE]
        ELSE acc

\* the (source, destination) pairs of one pass, in loop order
RelaxPairs(dim) ==
    LET n == dim - 1
    IN  [k \in 1..(n * n) |-> << ((k - 1) \div n) + 1, ((k - 1) % n) + 1 >>]

\* the pairs lo..hi of one pass, in loop order
RECURSIVE RelaxPass(_, _, _, _, _)
RelaxPass(acc, pairs, lo, hi, dim) ==
    IF lo > hi THEN acc
    ELSE IF lo = hi THEN RelaxStep(acc, pairs[lo], dim)
    ELSE LET mid == (lo + hi) \div 2
             first_half == RelaxPass(acc, pairs, lo, mid, dim)
         IN  \* the first half is evaluated before the second one starts
             IF first_half.is_improving_distance \in BOOLEAN
             THEN RelaxPass(first_half, pairs, mid + 1, hi, dim)
             ELSE acc

\* the `while is_improving_distance` loop
RECURSIVE RelaxUntilFixed(_, _)
RelaxUntilFixed(distance, dim) ==
    LET pass == RelaxPass([distance |-> distance, is_improving_distance |-> FALSE],
                          RelaxPairs(dim), 1, (dim - 1) * (dim - 1), dim)
    IN  IF pass.is_improving_distance
        THEN RelaxUntilFixed(pass.distance, dim)
        ELSE pass.distance

adjacency_to_distance(adjacency, dim) ==
    LET initial == [r \in 0..(dim - 1) |-> [c \in 0..(dim - 1) |->
                       IF r = c THEN 0
                       ELSE IF adjacency[r][c] THEN 1 ELSE UNREACHABLE_DISTANCE]]
    IN  RelaxUntilFixed(initial, dim)

\* Board::new: rooms is a set of records [id, adjacent, visible]
BoardNew(name, rooms, player_start_room_id, doctor_start_room_id) ==
    LET ids == {room.id : room \in rooms}
        room_ids == SortedIds(ids)
        matrix_dim == (CHOOSE m \in ids : \A y \in ids : y <= m) + 1
        RoomOf(id) == CHOOSE room \in rooms : room.id = id
        adjacency == [r \in 0..(matrix_dim - 1) |-> [c \in 0..(matrix_dim - 1) |->
                        r \in ids /\ (r = c \/ c \in RoomOf(r).adjacent)]]
        sight == [r \in 0..(matrix_dim - 1) |-> [c \in 0..(matrix_dim - 1) |->
                        r \in ids /\ (r = c \/ c \in RoomOf(r).visible)]]
    IN  [name |-> name,
         room_ids |-> room_ids,
         adjacency |-> adjacency,
         sight |-> sight,
         distance |-> adjacency_to_distance(adjacency, matrix_dim),
         player_start_room_id |-> player_start_room_id,
         doctor_start_room_id |-> doctor_start_room_id]

\* faulty variant: the matrices are not compared with their transposes
BoardIsValid_Faulty(rooms, board) ==
    LET ids == {room.id : room \in rooms}
    IN  /\ board.player_start_room_id > 0
        /\ board.doctor_start_room_id > 0
        /\ \A room \in rooms :
              /\ room.id \notin room.adjacent
              /\ room.id \notin room.visible
              /\ room.adjacent \subseteq ids
              /\ room.visible \subseteq ids

\* Board::is_valid
BoardIsValid(rooms, board) ==
    LET ids == {room.id : room \in rooms}
    IN  /\ board.player_start_room_id > 0
        /\ board.doctor_start_room_id > 0
        /\ \A room \in rooms :
              /\ room.id \notin room.adjacent
              /\ room.id \notin room.visible
              /\ room.adjacent \subseteq ids
              /\ room.visible \subseteq ids
        /\ \A r1 \in DOMAIN board.adjacency : \A r2 \in DOMAIN board.adjacency :
              /\ board.adjacency[r1][r2] = board.adjacency[r2][r1]
              /\ board.sight[r1][r2] = board.sight[r2][r1]

\* i32::MAX
I32_MAX == 2147483647

\* `idx as i32 + delta` of next_room_id overflows (idx is not negative)
NextRoomIdOverflows(room_id, delta, room_ids) ==
    delta > I32_MAX - (Position(room_ids, room_id) - 1)

\* a + b in i32 for a >= 0: the sum, less 2^32 where it passes i32::MAX
WrappingAddI32(a, b) ==
    IF b > I32_MAX - a THEN (a - I32_MAX - 2) + (b - I32_MAX) ELSE a + b

\* in a build with overflow checks the addition panics where it overflows;
\* otherwise it wraps
next_room_id(room_id, delta, room_ids) ==
    LET idx == Position(room_ids, room_id) - 1
        next_idx == positive_remainder(WrappingAddI32(idx, delta), Len(room_ids))
    IN  room_ids[next_idx + 1]

room_ids_in_doctor_visit_order(board, start_room_id) ==
    LET start_idx == Position(board.room_ids, start_room_id) - 1
        n == Len(board.room_ids)
    IN  [i \in 1..n |-> board.room_ids[((start_idx + (i - 1)) % n) + 1]]

\* ------------------------------------------------------------------------
\* The build profile: with overflow checks (the dev profile) an arithmetic
\* overflow panics, without them (the release profile) it wraps.
\* ------------------------------------------------------------------------
VARIABLE overflow_checks

\* ------------------------------------------------------------------------
\* common_game_state.rs
\* ------------------------------------------------------------------------
CommonGameState(board, num_normal_players) ==
    [board |-> board,
     num_normal_players |-> num_normal_players,
     num_all_players |-> num_all_players(num_normal_players)]

has_strangers(c) == c.num_normal_players = NUM_NORMAL_PLAYERS_WHEN_HAVE_STRANGERS

get_player_type(c, player_id) ==
    IF has_strangers(c) /\ player_id % 2 = 1 THEN "Stranger" ELSE "Normal"

player_ids(c) == 0..(c.num_all_players - 1)

\* player_id.0 + 1 in usize arithmetic
to_player_display_num(player_id) ==
    IF player_id = USIZE_MAX
    THEN [panics |-> overflow_checks, num |-> 0]
    ELSE [panics |-> FALSE, num |-> player_id + 1]

\* the text of a player: "P" or "p" and the display number
player_text(c, player_id) ==
    LET display == to_player_display_num(player_id)
    IN  [panics |-> display.panics,
         prefix |-> IF get_player_type(c, player_id) = "Normal" THEN "P" ELSE "p",
         num |-> display.num]

\* ------------------------------------------------------------------------
\* simple_turn.rs / player.rs
\* ------------------------------------------------------------------------
PlayerMove(player_id, dest_room_id) ==
    [player_id |-> player_id, dest_room_id |-> dest_room_id]

invalid_default == << PlayerMove(INVALID_PLAYER_ID, 0) >>

\* ------------------------------------------------------------------------
\* mutable_game_state.rs
\* ------------------------------------------------------------------------
at_start(c) ==
    [turn_id |-> 1,
     current_player_id |-> 0,
     doctor_room_id |-> c.board.doctor_start_room_id,
     player_room_ids |-> [p \in player_ids(c) |-> c.board.player_start_room_id],
     player_move_cards |-> [p \in player_ids(c) |-> PLAYER_STARTING_MOVE_CARDS],
     player_weapons |-> [p \in player_ids(c) |-> PLAYER_STARTING_WEAPONS],
     player_failures |-> [p \in player_ids(c) |-> PLAYER_STARTING_FAILURES],
     player_strengths |-> [p \in player_ids(c) |-> PLAYER_STARTING_STRENGTH],
     attacker_hist |-> <<>>,
     winner |-> INVALID_PLAYER_ID,
     prev_turn |-> invalid_default,
     prev_state |-> <<>>]

has_winner(s) == s.winner # INVALID_PLAYER_ID

\* faulty variant: every turn counts as a normal player's turn
is_normal_turn_Faulty(c, s) == TRUE

is_normal_turn(c, s) == get_player_type(c, s.current_player_id) = "Normal"

\* PlayerId and RoomId wrap an unsigned integer: the INVALID sentinel is
\* above every roster size, and a room id indexes a matrix of matrix_dim rows.
PlayerIdInRoster(c, player_id) == player_id >= 0 /\ player_id < c.num_all_players

RoomIndexOk(c, room_id) == room_id \in DOMAIN c.board.distance

\* sum of distance[room of the moved piece][destination]; -1 when an index
\* of the sum is out of bounds (the Rust indexing aborts there)
TurnTotalDist(c, s, turn) ==
    IF \E i \in 1..Len(turn) :
           \/ ~PlayerIdInRoster(c, turn[i].player_id)
           \/ ~RoomIndexOk(c, turn[i].dest_room_id)
    THEN -1
    ELSE LET Dist(i) == c.board.distance[s.player_room_ids[turn[i].player_id]]
                                         [turn[i].dest_room_id]
             Sum[i \in 0..Len(turn)] == IF i = 0 THEN 0 ELSE Sum[i - 1] + Dist(i)
         IN  Sum[Len(turn)]

\* the first loop of check_normal_turn: the two tests made on each move
InvalidPlayerId(c, mv) == ~PlayerIdInRoster(c, mv.player_id)

InvalidRoomId(c, mv) == mv.dest_room_id \notin SeqToSet(c.board.room_ids)

\* faulty variant: no free step
UsedTooManyMovePoints_Faulty(s, total_dist) ==
    s.player_move_cards[s.current_player_id] < Max2(total_dist, 0) * CardUnit

\* player_move_cards[current] < (total_dist - 1).max(0) as f64
UsedTooManyMovePoints(s, total_dist) ==
    s.player_move_cards[s.current_player_id] < Max2(total_dist - 1, 0) * CardUnit

\* the second test of the last loop of check_normal_turn
TriedToMoveNonStranger(c, s, mv) ==
    /\ mv.player_id # s.current_player_id
    /\ get_player_type(c, mv.player_id) # "Stranger"

check_normal_turn(c, s, turn) ==
    LET Bad(i) == InvalidPlayerId(c, turn[i]) \/ InvalidRoomId(c, turn[i])
        firstBad == IF \E i \in 1..Len(turn) : Bad(i)
                    THEN CHOOSE i \in 1..Len(turn) :
                            Bad(i) /\ \A j \in 1..(i - 1) : ~Bad(j)
                    ELSE 0
        total_dist == TurnTotalDist(c, s, turn)
    IN  IF firstBad # 0
        THEN IF InvalidPlayerId(c, turn[firstBad])
             THEN IF player_text(c, turn[firstBad].player_id).panics
                  THEN "panic: attempt to add with overflow"
                  ELSE "invalid playerId"
             ELSE "invalid roomId"
        ELSE IF total_dist < 0
        THEN "panic: index out of bounds"
        ELSE IF UsedTooManyMovePoints(s, total_dist)
        THEN "used too many move points"
        ELSE IF \E i \in 1..Len(turn) : turn[i].player_id >= c.num_all_players
        THEN "invalid player in move"
        ELSE IF \E i \in 1..Len(turn) : TriedToMoveNonStranger(c, s, turn[i])
        THEN "tried to move non-stranger"
        ELSE "ok"

\* faulty variant: being seen by other players is ignored
best_action_allowed_Faulty(c, s, moved_stranger_that_saw_doctor) ==
    LET current_room_id == s.player_room_ids[s.current_player_id]
    IN  IF /\ current_room_id = s.doctor_room_id
           /\ (~STRANGERS_ARE_NOSY \/ ~moved_stranger_that_saw_doctor)
        THEN "Attack"
        ELSE IF c.board.sight[current_room_id][s.doctor_room_id] THEN "None"
        ELSE "Loot"

best_action_allowed(c, s, moved_stranger_that_saw_doctor) ==
    LET current_room_id == s.player_room_ids[s.current_player_id]
        seen_by_other_players ==
            \E player_id \in player_ids(c) :
                /\ player_id # s.current_player_id
                /\ c.board.sight[current_room_id][s.player_room_ids[player_id]]
    IN  IF seen_by_other_players THEN "None"
        ELSE IF /\ current_room_id = s.doctor_room_id
                /\ (~STRANGERS_ARE_NOSY \/ ~moved_stranger_that_saw_doctor)
        THEN "Attack"
        ELSE IF c.board.sight[current_room_id][s.doctor_room_id] THEN "None"
        ELSE "Loot"

use_weapon(player_weapons, idx, attack_strength) ==
    IF player_weapons[idx] >= CardUnit
    THEN [cards |-> [player_weapons EXCEPT ![idx] = @ - CardUnit],
          attack_strength |-> attack_strength + STRENGTH_PER_WEAPON]
    ELSE [cards |-> player_weapons, attack_strength |-> attack_strength]

\* faulty variant: the cards the attack calls for are spent whether or not
\* the defender holds that many
defend_with_card_type_Faulty(idx, attack_strength, player_cards, clovers_per_card) ==
    IF attack_strength > 0 /\ player_cards[idx] > 0
    THEN LET num_used_cards ==
                 (attack_strength * clovers_per_card[2]) \div clovers_per_card[1]
         IN  [cards |-> [player_cards EXCEPT ![idx] = @ - num_used_cards],
              attack_strength |->
                  attack_strength
                    - (num_used_cards * clovers_per_card[1]) \div clovers_per_card[2]]
    ELSE [cards |-> player_cards, attack_strength |-> attack_strength]

defend_with_card_type(idx, attack_strength, player_cards, clovers_per_card) ==
    IF attack_strength > 0 /\ player_cards[idx] > 0
    THEN LET num_used_cards ==
                 Min2(player_cards[idx],
                      (attack_strength * clovers_per_card[2]) \div clovers_per_card[1])
         IN  [cards |-> [player_cards EXCEPT ![idx] = @ - num_used_cards],
              attack_strength |->
                  attack_strength
                    - (num_used_cards * clovers_per_card[1]) \div clovers_per_card[2]]
    ELSE [cards |-> player_cards, attack_strength |-> attack_strength]

\* faulty variant: the defender spends weapons before failures
DefendWithAllCards_Faulty(s, defender_idx, attack_strength) ==
    LET w == defend_with_card_type(defender_idx, attack_strength,
                                   s.player_weapons, CLOVERS_PER_WEAPON)
        f == defend_with_card_type(defender_idx, w.attack_strength,
                                   s.player_failures, CLOVERS_PER_FAILURE)
        m == defend_with_card_type(defender_idx, f.attack_strength,
                                   s.player_move_cards, CLOVERS_PER_MOVE_CARD)
    IN  [state |-> [s EXCEPT !.player_failures = f.cards,
                             !.player_weapons = w.cards,
                             !.player_move_cards = m.cards],
         attack_strength |-> m.attack_strength]

\* the three defend_with_card_type calls of one defender: failures, weapons, moves
DefendWithAllCards(s, defender_idx, attack_strength) ==
    LET f == defend_with_card_type(defender_idx, attack_strength,
                                   s.player_failures, CLOVERS_PER_FAILURE)
        w == defend_with_card_type(defender_idx, f.attack_strength,
                                   s.player_weapons, CLOVERS_PER_WEAPON)
        m == defend_with_card_type(defender_idx, w.attack_strength,
                                   s.player_move_cards, CLOVERS_PER_MOVE_CARD)
    IN  [state |-> [s EXCEPT !.player_failures = f.cards,
                             !.player_weapons = w.cards,
                             !.player_move_cards = m.cards],
         attack_strength |-> m.attack_strength]

num_defensive_clovers(c, s) ==
    LET attacking_side == to_normal_player_id(s.current_player_id, c.num_normal_players)
        Counts(pid) == /\ pid # s.current_player_id
                       /\ get_player_type(c, pid) = "Normal"
                       /\ pid # attacking_side
        Clovers(pid) ==
            (s.player_failures[pid] * CLOVERS_PER_FAILURE[1]) \div CLOVERS_PER_FAILURE[2]
            + (s.player_weapons[pid] * CLOVERS_PER_WEAPON[1]) \div CLOVERS_PER_WEAPON[2]
            + (s.player_move_cards[pid] * CLOVERS_PER_MOVE_CARD[1])
                  \div CLOVERS_PER_MOVE_CARD[2]
        Sum[n \in 0..c.num_normal_players] ==
            IF n = 0 THEN 0
            ELSE Sum[n - 1] + (IF Counts(n - 1) THEN Clovers(n - 1) ELSE 0)
    IN  Sum[c.num_normal_players]

\* faulty variant: the walk goes clockwise
RECURSIVE DefenderWalk_Faulty(_, _, _, _)
DefenderWalk_Faulty(c, s, defender, attack_strength) ==
    IF attack_strength > 0
    THEN LET next_defender == positive_remainder(defender + 1, c.num_all_players)
         IN  IF next_defender = s.current_player_id
             THEN [state |-> s, success |-> TRUE]
             ELSE LET d == DefendWithAllCards(s, next_defender, attack_strength)
                  IN  DefenderWalk_Faulty(c, d.state, next_defender, d.attack_strength)
    ELSE [state |-> s, success |-> FALSE]

\* the counter-clockwise walk of process_attack without strangers
RECURSIVE DefenderWalk(_, _, _, _)
DefenderWalk(c, s, defender, attack_strength) ==
    IF attack_strength > 0
    THEN LET next_defender == positive_remainder(defender - 1, c.num_all_players)
         IN  IF next_defender = s.current_player_id
             THEN [state |-> s, success |-> TRUE]
             ELSE LET d == DefendWithAllCards(s, next_defender, attack_strength)
                  IN  DefenderWalk(c, d.state, next_defender, d.attack_strength)
    ELSE [state |-> s, success |-> FALSE]

\* faulty variant: the attack is made with the strength it leaves behind
process_attack_Faulty(c, s) ==
    LET current_idx == s.current_player_id
        attack_strength == (s.player_strengths[current_idx] + 1) * CardUnit
        s1 == [s EXCEPT !.player_strengths[current_idx] = @ + 1,
                        !.attacker_hist = Append(@, s.current_player_id)]
    IN  IF has_strangers(c)
        THEN IF attack_strength < 0
             THEN [state |-> s1, success |-> FALSE]
             ELSE LET u == IF is_normal_turn(c, s1)
                           THEN use_weapon(s1.player_weapons, current_idx, attack_strength)
                           ELSE [cards |-> s1.player_weapons,
                                 attack_strength |-> attack_strength]
                      s2 == [s1 EXCEPT !.player_weapons = u.cards]
                      defender == opposing_normal_player(s1.current_player_id)
                      d == DefendWithAllCards(s2, defender, u.attack_strength)
                  IN  [state |-> d.state, success |-> d.attack_strength > 0]
        ELSE LET clovers == num_defensive_clovers(c, s1)
                 u == IF clovers <= 2 * attack_strength
                      THEN use_weapon(s1.player_weapons, current_idx, attack_strength)
                      ELSE [cards |-> s1.player_weapons,
                            attack_strength |-> attack_strength]
                 s2 == [s1 EXCEPT !.player_weapons = u.cards]
             IN  IF clovers < u.attack_strength
                 THEN [state |-> s2, success |-> TRUE]
                 ELSE DefenderWalk(c, s2, s2.current_player_id, u.attack_strength)

process_attack(c, s) ==
    LET current_idx == s.current_player_id
        attack_strength == s.player_strengths[current_idx] * CardUnit
        s1 == [s EXCEPT !.player_strengths[current_idx] = @ + 1,
                        !.attacker_hist = Append(@, s.current_player_id)]
    IN  IF has_strangers(c)
        THEN IF attack_strength < 0
             THEN [state |-> s1, success |-> FALSE]
             ELSE LET u == IF is_normal_turn(c, s1)
                           THEN use_weapon(s1.player_weapons, current_idx, attack_strength)
                           ELSE [cards |-> s1.player_weapons,
                                 attack_strength |-> attack_strength]
                      s2 == [s1 EXCEPT !.player_weapons = u.cards]
                      defender == opposing_normal_player(s1.current_player_id)
                      d == DefendWithAllCards(s2, defender, u.attack_strength)
                  IN  [state |-> d.state, success |-> d.attack_strength > 0]
        ELSE LET clovers == num_defensive_clovers(c, s1)
                 u == IF clovers <= 2 * attack_strength
                      THEN use_weapon(s1.player_weapons, current_idx, attack_strength)
                      ELSE [cards |-> s1.player_weapons,
                            attack_strength |-> attack_strength]
                 s2 == [s1 EXCEPT !.player_weapons = u.cards]
             IN  IF clovers < u.attack_strength
                 THEN [state |-> s2, success |-> TRUE]
                 ELSE DefenderWalk(c, s2, s2.current_player_id, u.attack_strength)

\* faulty variant: the scan for a piece in the doctor's room starts a round late
do_doctor_phase_Faulty(c, s) ==
    LET n == c.num_all_players
        doctor == next_room_id(s.doctor_room_id, 1, c.board.room_ids)
        candidate == (s.current_player_id + 1) % n
        Scanned(player_offset) == (candidate + player_offset) % n
        Occupies(player_offset) == s.player_room_ids[Scanned(player_offset)] = doctor
        activated ==
            IF s.turn_id >= 2 * n /\ \E o \in 0..(n - 1) : Occupies(o)
            THEN Scanned(CHOOSE o \in 0..(n - 1) :
                            Occupies(o) /\ \A o2 \in 0..(o - 1) : ~Occupies(o2))
            ELSE candidate
    IN  [s EXCEPT !.doctor_room_id = doctor, !.current_player_id = activated]

do_doctor_phase(c, s) ==
    LET n == c.num_all_players
        doctor == next_room_id(s.doctor_room_id, 1, c.board.room_ids)
        candidate == (s.current_player_id + 1) % n
        Scanned(player_offset) == (candidate + player_offset) % n
        Occupies(player_offset) == s.player_room_ids[Scanned(player_offset)] = doctor
        activated ==
            IF s.turn_id >= n /\ \E o \in 0..(n - 1) : Occupies(o)
            THEN Scanned(CHOOSE o \in 0..(n - 1) :
                            Occupies(o) /\ \A o2 \in 0..(o - 1) : ~Occupies(o2))
            ELSE candidate
    IN  [s EXCEPT !.doctor_room_id = doctor, !.current_player_id = activated]

\* the attack of after_stranger_turn: a successful stranger hands the win to its ally
StrangerAttackOutcome(c, attack) ==
    IF attack.success
    THEN LET normal_id == to_normal_player_id(attack.state.current_player_id,
                                              c.num_normal_players)
         IN  [attack.state EXCEPT !.current_player_id = normal_id,
                                  !.winner = normal_id]
    ELSE attack.state

\* the start of after_stranger_turn: prev_state, the stranger's step, its action
StrangerMoveAndAct(c, s, want_log) ==
    LET s0 == IF want_log THEN [s EXCEPT !.prev_state = <<s>>] ELSE s
        first_action == best_action_allowed(c, s0, FALSE)
        current_player_idx == s0.current_player_id
        current_room == s0.player_room_ids[current_player_idx]
        new_room_id == IF first_action = "Attack" THEN current_room
                       ELSE next_room_id(current_room, -1, c.board.room_ids)
        s1 == [s0 EXCEPT !.player_room_ids[current_player_idx] = new_room_id]
        best_action == IF first_action # "Attack"
                       THEN best_action_allowed(c, s1, FALSE)
                       ELSE first_action
    IN  IF best_action = "Attack"
        THEN StrangerAttackOutcome(c, process_attack(c, s1))
        ELSE s1

\* faulty variant: the doctor phase runs after a winning attack as well
DoctorPhaseAndTurnId_Faulty(c, s) ==
    [do_doctor_phase(c, s) EXCEPT !.turn_id = @ + 1]

\* the doctor phase and the turn_id increment that end a turn
DoctorPhaseAndTurnId(c, s) ==
    [(IF ~has_winner(s) THEN do_doctor_phase(c, s) ELSE s) EXCEPT !.turn_id = @ + 1]

RECURSIVE after_stranger_turn(_, _, _, _)
\* the end of a turn: a stranger that comes next takes its turn at once
ContinueWithStrangers(c, s, want_log, chain) ==
    IF ~has_winner(s) /\ ~is_normal_turn(c, s) /\ chain <= MaxStrangerChain
    THEN after_stranger_turn(c, s, want_log, chain)
    ELSE s

after_stranger_turn(c, s, want_log, chain) ==
    ContinueWithStrangers(c, DoctorPhaseAndTurnId(c, StrangerMoveAndAct(c, s, want_log)),
                          want_log, chain + 1)

\* the loop over turn.moves of after_normal_turn
RECURSIVE ApplyMoves(_, _, _, _, _)
ApplyMoves(c, s, turn, i, moved_stranger_that_saw_doctor) ==
    IF i > Len(turn)
    THEN [state |-> s, moved_stranger_that_saw_doctor |-> moved_stranger_that_saw_doctor]
    ELSE LET mv == turn[i]
             room_id == s.player_room_ids[mv.player_id]
             saw == /\ mv.player_id # s.current_player_id
                    /\ c.board.sight[room_id][s.doctor_room_id]
         IN  ApplyMoves(c, [s EXCEPT !.player_room_ids[mv.player_id] = mv.dest_room_id],
                        turn, i + 1, moved_stranger_that_saw_doctor \/ saw)

\* faulty variant: the first step of a turn costs a move card as well
PayAndMove_Faulty(c, s, turn, want_log) ==
    LET s0 == IF want_log THEN [s EXCEPT !.prev_state = <<s>>] ELSE s
        total_dist == TurnTotalDist(c, s0, turn)
        move_cards_used == Max2(total_dist, 0) * CardUnit
        current_idx == s0.current_player_id
        s1 == [s0 EXCEPT !.player_move_cards[current_idx] = @ - move_cards_used]
    IN  ApplyMoves(c, s1, turn, 1, FALSE)

\* the start of after_normal_turn: prev_state, the move cards paid, the pieces moved
PayAndMove(c, s, turn, want_log) ==
    LET s0 == IF want_log THEN [s EXCEPT !.prev_state = <<s>>] ELSE s
        total_dist == TurnTotalDist(c, s0, turn)
        move_cards_used == Max2(total_dist - 1, 0) * CardUnit
        current_idx == s0.current_player_id
        s1 == [s0 EXCEPT !.player_move_cards[current_idx] = @ - move_cards_used]
    IN  ApplyMoves(c, s1, turn, 1, FALSE)

\* faulty variant: the win goes to the piece next to the attacker
NormalAttackOutcome_Faulty(attack) ==
    IF attack.success
    THEN [attack.state EXCEPT !.winner = IF attack.state.current_player_id = 0 THEN 1
                                         ELSE attack.state.current_player_id - 1]
    ELSE attack.state

\* the attack of after_normal_turn: a successful attacker is the winner
NormalAttackOutcome(attack) ==
    IF attack.success
    THEN [attack.state EXCEPT !.winner = attack.state.current_player_id]
    ELSE attack.state

\* the action of after_normal_turn, on the state the moves left
ActAfterMoves(c, moved, turn) ==
    LET s2 == [moved.state EXCEPT !.prev_turn = turn]
        current_idx == s2.current_player_id
        action == best_action_allowed(c, s2, moved.moved_stranger_that_saw_doctor)
    IN  IF action = "Attack"
        THEN NormalAttackOutcome(process_attack(c, s2))
        ELSE IF action = "Loot"
        THEN [s2 EXCEPT !.player_move_cards[current_idx] = @ + MOVE_CARDS_PER_LOOT,
                        !.player_weapons[current_idx] = @ + WEAPONS_PER_LOOT,
                        !.player_failures[current_idx] = @ + FAILURES_PER_LOOT]
        ELSE s2

after_normal_turn(c, s, turn, want_log) ==
    ContinueWithStrangers(
        c, DoctorPhaseAndTurnId(c, ActAfterMoves(c, PayAndMove(c, s, turn, want_log), turn)),
        want_log, 1)

\* faulty variant: the copy does not keep the link to the previous state
copy_state_Faulty(s) == [s EXCEPT !.prev_state = <<>>]

\* MutableGameState::copy_state: a new state, field by field
copy_state(s) ==
    [turn_id |-> s.turn_id,
     current_player_id |-> s.current_player_id,
     doctor_room_id |-> s.doctor_room_id,
     player_room_ids |-> s.player_room_ids,
     player_move_cards |-> s.player_move_cards,
     player_weapons |-> s.player_weapons,
     player_failures |-> s.player_failures,
     player_strengths |-> s.player_strengths,
     attacker_hist |-> s.attacker_hist,
     winner |-> s.winner,
     prev_turn |-> s.prev_turn,
     prev_state |-> s.prev_state]

\* MutableGameState::after_turn, called on the state s: what the receiver is
\* afterwards and the state returned
after_turn(c, s, turn, must_return_new_object) ==
    IF must_return_new_object
    THEN [receiver |-> s,
          returned |-> after_normal_turn(c, copy_state(s), turn, FALSE)]
    ELSE [receiver |-> after_normal_turn(c, s, turn, FALSE),
          returned |-> after_normal_turn(c, s, turn, FALSE)]

\* impl PartialEq for MutableGameState (common is shared by every state of a game)
StateEq(a, b) ==
    /\ a.current_player_id = b.current_player_id
    /\ a.doctor_room_id = b.doctor_room_id
    /\ a.player_room_ids = b.player_room_ids
    /\ a.player_move_cards = b.player_move_cards
    /\ a.player_weapons = b.player_weapons
    /\ a.player_failures = b.player_failures
    /\ a.player_strengths = b.player_strengths
    /\ a.winner = b.winner

\* ------------------------------------------------------------------------
\* possible_turns (mutable_game_state.rs)
\* ------------------------------------------------------------------------
\* `x as i32` of a card count: truncation toward zero
TruncCards(x) == IF x >= 0 THEN x \div CardUnit ELSE -((-x) \div CardUnit)

RECURSIVE FlattenSeqs(_)
FlattenSeqs(sqs) == IF sqs = <<>> THEN <<>> ELSE Head(sqs) \o FlattenSeqs(Tail(sqs))

\* the elements of sq that are in keep, in the order of sq
RECURSIVE FilterSeq(_, _)
FilterSeq(sq, keep) ==
    IF sq = <<>> THEN <<>>
    ELSE (IF Head(sq) \in keep THEN <<Head(sq)>> ELSE <<>>) \o FilterSeq(Tail(sq), keep)

possible_turns_single(c, s, dist_allowed, movable_player) ==
    LET movable_room == s.player_room_ids[movable_player]
        Within(dest_room) == c.board.distance[movable_room][dest_room] <= dist_allowed
        dests == FilterSeq(c.board.room_ids,
                           {r \in SeqToSet(c.board.room_ids) : Within(r)})
    IN  [i \in 1..Len(dests) |-> << PlayerMove(movable_player, dests[i]) >>]

possible_turns_dual(c, s, dist_allowed, movable_player_a, movable_player_b) ==
    LET src_room_a == s.player_room_ids[movable_player_a]
        src_room_b == s.player_room_ids[movable_player_b]
        room_ids == c.board.room_ids
        distance == c.board.distance
        Inner(dst_room_a) ==
            LET dist_remaining == dist_allowed - distance[src_room_a][dst_room_a]
                KeepB(dst_room_b) ==
                    ~(distance[src_room_b][dst_room_b] > dist_remaining
                      \/ src_room_b = dst_room_b)
                dsts_b == FilterSeq(room_ids, {r \in SeqToSet(room_ids) : KeepB(r)})
            IN  IF dist_remaining <= 0 \/ src_room_a = dst_room_a
                THEN <<>>
                ELSE [j \in 1..Len(dsts_b) |->
                         << PlayerMove(movable_player_a, dst_room_a),
                            PlayerMove(movable_player_b, dsts_b[j]) >>]
    IN  FlattenSeqs([i \in 1..Len(room_ids) |-> Inner(room_ids[i])])

possible_turns(c, s) ==
    IF has_winner(s) THEN <<>>
    ELSE LET cur == s.current_player_id
             dist_allowed == TruncCards(s.player_move_cards[cur]) + 1
             singles == possible_turns_single(c, s, dist_allowed, cur)
             ally == allied_stranger(cur)
             opp == opposing_stranger(cur)
         IN  IF has_strangers(c)
             THEN singles
                  \o possible_turns_single(c, s, dist_allowed, ally)
                  \o possible_turns_single(c, s, dist_allowed, opp)
                  \o (IF s.player_move_cards[cur] > 0
                      THEN possible_turns_dual(c, s, dist_allowed, cur, ally)
                           \o possible_turns_dual(c, s, dist_allowed, cur, opp)
                           \o possible_turns_dual(c, s, dist_allowed, ally, opp)
                      ELSE <<>>)
             ELSE singles

\* ------------------------------------------------------------------------
\* heuristic_score (mutable_game_state.rs); scores in units of 1/ScoreUnit,
\* doctor scores in units of 1/AdvUnit
\* ------------------------------------------------------------------------
ScoreUnit == 9600000
AdvUnit == 10000
NOT_FOUND_DIST == 999

\* 0.9^e and 0.5^e for the exponents a board of at most 4 rooms produces
DecayNormal(e) ==
    CASE e = 0 -> 10000 [] e = 1 -> 9000 [] e = 2 -> 8100 [] e = 3 -> 7290 [] e = 4 -> 6561
      [] e = NOT_FOUND_DIST -> 0

DecayStranger(e) ==
    CASE e = 1 -> 5000 [] e = 2 -> 2500 [] e = 3 -> 1250 [] e = 4 -> 625

\* index (from 0) of the first occurrence of target at index >= start, else -1
find_index_from(rooms, target, start) ==
    LET Hit(i) == rooms[i + 1] = target
        idxs == {i \in start..(Len(rooms) - 1) : Hit(i)}
    IN  IF idxs = {} THEN -1 ELSE CHOOSE i \in idxs : \A j \in idxs : i <= j

doctor_score_with_rooms(c, s, my_room, stranger_ally_room, normal_enemy_room, stranger_enemy_room) ==
    LET num_players_not_had_turn == c.num_all_players - s.turn_id
        doctor_delta_for_activation == Max2(num_players_not_had_turn + 1, 1)
        next_doctor_room_id == next_room_id(s.doctor_room_id, doctor_delta_for_activation,
                                            c.board.room_ids)
        doctor_rooms == <<s.doctor_room_id>>
                          \o room_ids_in_doctor_visit_order(c.board, next_doctor_room_id)
        my_starting_search_idx == IF num_players_not_had_turn > 0 THEN 1 ELSE 0
        Near(i) == \/ doctor_rooms[i + 1] = my_room
                   \/ (i > 0 /\ c.board.distance[my_room][doctor_rooms[i + 1]] <= 1)
        nears == {i \in my_starting_search_idx..(Len(doctor_rooms) - 1) : Near(i)}
        my_doctor_dist == IF nears = {} THEN NOT_FOUND_DIST
                          ELSE CHOOSE i \in nears : \A j \in nears : i <= j
        stranger_ally_doctor_dist == find_index_from(doctor_rooms, stranger_ally_room, 1)
        normal_enemy_doctor_dist == find_index_from(doctor_rooms, normal_enemy_room, 1)
        stranger_enemy_doctor_dist == find_index_from(doctor_rooms, stranger_enemy_room, 1)
    IN  DecayNormal(my_doctor_dist)
          + DecayStranger(stranger_ally_doctor_dist)
          - DecayNormal(normal_enemy_doctor_dist)
          - DecayStranger(stranger_enemy_doctor_dist)

\* the misc_score closure of heuristic_score
misc_score(s, player_id, allied_strength, is_allied_turn, allied_doctor_advantage) ==
    allied_strength * ScoreUnit
      + allied_strength
          * (s.player_move_cards[player_id] * (ScoreUnit \div (2 * CardUnit))
             + (IF is_allied_turn THEN (ScoreUnit \div 40) * 19 ELSE 0)
             + allied_doctor_advantage * ((ScoreUnit \div (20 * AdvUnit)) * 9))
      + s.player_weapons[player_id] * (ScoreUnit \div (2 * CardUnit))
      + s.player_failures[player_id] * (ScoreUnit \div (8 * CardUnit))

heuristic_score(c, s, analysis_player_id) ==
    IF has_winner(s)
    THEN IF analysis_player_id = to_normal_player_id(s.winner, c.num_normal_players)
         THEN HEURISTIC_SCORE_WIN
         ELSE HEURISTIC_SCORE_LOSS
    ELSE IF has_strangers(c)
    THEN LET stranger_ally == allied_stranger(analysis_player_id)
             normal_opponent == opposing_normal_player(analysis_player_id)
             stranger_opponent == allied_stranger(normal_opponent)
             allied_strength == s.player_strengths[analysis_player_id]
                                  + s.player_strengths[stranger_ally]
             opponent_strength == s.player_strengths[normal_opponent]
                                    + s.player_strengths[stranger_opponent]
             is_my_turn == analysis_player_id = s.current_player_id
             allied_doctor_advantage ==
                 doctor_score_with_rooms(c, s,
                     s.player_room_ids[IF is_my_turn THEN analysis_player_id
                                       ELSE normal_opponent],
                     s.player_room_ids[IF is_my_turn THEN stranger_ally
                                       ELSE stranger_opponent],
                     s.player_room_ids[IF is_my_turn THEN normal_opponent
                                       ELSE analysis_player_id],
                     s.player_room_ids[IF is_my_turn THEN stranger_opponent
                                       ELSE stranger_ally])
                   * (IF is_my_turn THEN 1 ELSE -1)
         IN  misc_score(s, analysis_player_id, allied_strength, is_my_turn,
                        allied_doctor_advantage)
               - misc_score(s, normal_opponent, opponent_strength, ~is_my_turn,
                            -allied_doctor_advantage)
    ELSE LET n == c.num_all_players
             Term(pid) ==
                 LET m == misc_score(s, pid, s.player_strengths[pid],
                                     pid = s.current_player_id, 0)
                 IN  IF to_normal_player_id(pid, c.num_normal_players) = analysis_player_id
                     THEN m
                     ELSE -(m \div (c.num_normal_players - 1))
             Sum[k \in 0..n] == IF k = 0 THEN 0 ELSE Sum[k - 1] + Term(k - 1)
         IN  Sum[n]

\* ------------------------------------------------------------------------
\* player.rs (AppraisedPlayerTurn) and tree_search.rs
\* An Option is a sequence: <<>> is None, <<x>> is Some(x).
\* ------------------------------------------------------------------------
is_cancellation_requested(token) == token = "cancelled"

from_state(c, analysis_player_id, s) ==
    [appraisal |-> heuristic_score(c, s, analysis_player_id),
     turn |-> <<s.prev_turn>>,
     ending_state |-> <<s>>]

empty_minimum == [appraisal |-> NEG_INFINITY, turn |-> <<>>, ending_state |-> <<>>]

ALPHA_INITIAL == HEURISTIC_SCORE_LOSS
BETA_INITIAL == HEURISTIC_SCORE_WIN

\* impl GameState for MutableGameState: after_turn clones, then after_normal_turn
game_after_turn(c, s, turn) == after_normal_turn(c, s, turn, FALSE)

\* possible_turns().into_iter().map(after_turn).collect()
child_states_of(c, s) ==
    LET turns == possible_turns(c, s)
    IN  [i \in 1..Len(turns) |-> game_after_turn(c, s, turns[i])]

\* a stable sort of states on scores, the score of states[i] being scores[i]
StableSort(states, scores, sort_ascending) ==
    LET n == Len(states)
        Before(i, j) ==
            \/ (IF sort_ascending THEN scores[i] < scores[j] ELSE scores[i] > scores[j])
            \/ (scores[i] = scores[j] /\ i < j)
        Rank(i) == Cardinality({j \in 1..n : Before(j, i)}) + 1
    IN  [k \in 1..n |-> states[CHOOSE i \in 1..n : Rank(i) = k]]

\* sort_by(compare_scores(a.heuristic_score(curr_player_id),
\* b.heuristic_score(curr_player_id), sort_ascending)); each state is scored once
sort_by_scores(c, states, curr_player_id, sort_ascending) ==
    CHOOSE sorted \in {StableSort(sts, scores, sort_ascending) :
                          <<sts, scores>> \in {<<states, [i \in 1..Len(states) |->
                              heuristic_score(c, states[i], curr_player_id)]>>}} : TRUE

\* the children of a node in the order find_best_turn_two_players scans them
two_player_children(c, curr_state, analysis_level) ==
    LET unsorted == child_states_of(c, curr_state)
    IN  IF analysis_level > 1
        THEN sort_by_scores(c, unsorted, curr_state.current_player_id, FALSE)
        ELSE unsorted

RECURSIVE find_best_turn_two_players(_, _, _, _, _, _)
RECURSIVE ScanTwoPlayers(_, _, _, _, _, _, _, _, _)

\* the part of an iteration of the `for child_state in child_states` loop of
\* find_best_turn_two_players that follows the recursive call: sub is what
\* the call returned; loop holds best_turn, alpha, the count of
\* num_states_visited increments and whether the loop was left by a break
AfterChildTwoPlayers(child_state, token, beta, child_is_us, loop, sub) ==
    LET alpha == loop.alpha
        hypo_appraisal == IF child_is_us THEN sub.result.appraisal
                          ELSE -sub.result.appraisal
        improves == loop.best_turn.appraisal < hypo_appraisal
        new_best == IF improves
                    THEN [appraisal |-> hypo_appraisal,
                          turn |-> <<child_state.prev_turn>>,
                          ending_state |-> sub.result.ending_state]
                    ELSE loop.best_turn
        raises == improves /\ new_best.appraisal > alpha
        new_alpha == IF raises THEN new_best.appraisal ELSE alpha
    IN  [best_turn |-> new_best,
         alpha |-> new_alpha,
         visited |-> loop.visited + sub.visited,
         broke |-> (raises /\ new_alpha >= beta) \/ is_cancellation_requested(token)]

\* an iteration that searches the opponent with the empty window at -alpha
StepTwoPlayers_Faulty(c, child_state, analysis_level, token, beta, curr_player_id, loop) ==
    LET alpha == loop.alpha
        child_is_us == curr_player_id = child_state.current_player_id
        child_alpha == IF child_is_us THEN alpha ELSE -alpha
        child_beta == IF child_is_us THEN beta ELSE -alpha
    IN  AfterChildTwoPlayers(child_state, token, beta, child_is_us, loop,
            find_best_turn_two_players(c, child_state, analysis_level - 1, token,
                                       child_alpha, child_beta))

\* one iteration of the loop
StepTwoPlayers(c, child_state, analysis_level, token, beta, curr_player_id, loop) ==
    LET alpha == loop.alpha
        child_is_us == curr_player_id = child_state.current_player_id
        child_alpha == IF child_is_us THEN alpha ELSE -beta
        child_beta == IF child_is_us THEN beta ELSE -alpha
    IN  AfterChildTwoPlayers(child_state, token, beta, child_is_us, loop,
            find_best_turn_two_players(c, child_state, analysis_level - 1, token,
                                       child_alpha, child_beta))

\* the iterations lo..hi of the loop, in order, stopping at a break
ScanTwoPlayers(c, children, lo, hi, analysis_level, token, beta, curr_player_id, loop) ==
    IF lo > hi \/ loop.broke THEN loop
    ELSE IF lo = hi
    THEN StepTwoPlayers(c, children[lo], analysis_level, token, beta, curr_player_id, loop)
    ELSE LET mid == (lo + hi) \div 2
         IN  ScanTwoPlayers(c, children, mid + 1, hi, analysis_level, token, beta,
                            curr_player_id,
                            ScanTwoPlayers(c, children, lo, mid, analysis_level, token,
                                           beta, curr_player_id, loop))

\* what find_best_turn_* returns once its loop is over
LoopResult(loop) == [result |-> loop.best_turn, visited |-> loop.visited]

\* the whole `for child_state in child_states` loop of find_best_turn_two_players
LoopTwoPlayers(c, children, analysis_level, token, alpha, beta, curr_player_id) ==
    ScanTwoPlayers(c, children, 1, Len(children), analysis_level, token, beta,
                   curr_player_id,
                   [best_turn |-> empty_minimum, alpha |-> alpha,
                    visited |-> 1, broke |-> FALSE])

find_best_turn_two_players(c, curr_state, analysis_level, token, alpha, beta) ==
    IF has_winner(curr_state) \/ analysis_level = 0
    THEN [result |-> from_state(c, curr_state.current_player_id, curr_state), visited |-> 1]
    ELSE LoopResult(LoopTwoPlayers(c, two_player_children(c, curr_state, analysis_level),
                                   analysis_level, token, alpha, beta,
                                   curr_state.current_player_id))

RECURSIVE find_best_turn_many_players(_, _, _, _, _)
RECURSIVE ScanManyPlayers(_, _, _, _, _, _, _, _, _)

\* the part of an iteration of the `for child_state in child_states` loop of
\* find_best_turn_many_players that follows the recursive call
AfterChildManyPlayers(c, child_state, analysis_player_id, token, curr_player_id, loop, sub) ==
    LET hypo_appraisal ==
            IF curr_player_id # child_state.current_player_id
               /\ sub.result.ending_state # <<>>
            THEN heuristic_score(c, sub.result.ending_state[1], curr_player_id)
            ELSE sub.result.appraisal
        improves == loop.best_turn.appraisal < hypo_appraisal
        new_best == IF improves
                    THEN [appraisal |-> hypo_appraisal,
                          turn |-> <<child_state.prev_turn>>,
                          ending_state |-> sub.result.ending_state]
                    ELSE loop.best_turn
        wins == /\ improves
                /\ new_best.ending_state # <<>>
                /\ new_best.ending_state[1].winner = analysis_player_id
    IN  [best_turn |-> new_best,
         visited |-> loop.visited + sub.visited,
         broke |-> wins \/ is_cancellation_requested(token)]

\* the arguments of the recursive call the loop makes for a child
RecursiveCallManyPlayers(child_state, curr_player_id, analysis_level) ==
    [curr_state |-> child_state,
     analysis_player_id |-> curr_player_id,
     analysis_level |-> analysis_level - 1]

\* one iteration of the loop
StepManyPlayers(c, child_state, analysis_player_id, analysis_level, token, curr_player_id, loop) ==
    LET call == RecursiveCallManyPlayers(child_state, curr_player_id, analysis_level)
    IN  AfterChildManyPlayers(c, child_state, analysis_player_id, token, curr_player_id, loop,
            find_best_turn_many_players(c, call.curr_state, call.analysis_player_id,
                                        call.analysis_level, token))

ScanManyPlayers(c, children, lo, hi, analysis_player_id, analysis_level, token, curr_player_id, loop) ==
    IF lo > hi \/ loop.broke THEN loop
    ELSE IF lo = hi
    THEN StepManyPlayers(c, children[lo], analysis_player_id, analysis_level, token,
                         curr_player_id, loop)
    ELSE LET mid == (lo + hi) \div 2
         IN  ScanManyPlayers(c, children, mid + 1, hi, analysis_player_id, analysis_level,
                             token, curr_player_id,
                             ScanManyPlayers(c, children, lo, mid, analysis_player_id,
                                             analysis_level, token, curr_player_id, loop))

\* the whole `for child_state in child_states` loop of find_best_turn_many_players
LoopManyPlayers(c, children, analysis_player_id, analysis_level, token, curr_player_id) ==
    ScanManyPlayers(c, children, 1, Len(children), analysis_player_id, analysis_level,
                    token, curr_player_id,
                    [best_turn |-> empty_minimum, visited |-> 1, broke |-> FALSE])

find_best_turn_many_players(c, curr_state, analysis_player_id, analysis_level, token) ==
    IF has_winner(curr_state) \/ analysis_level = 0
    THEN [result |-> from_state(c, analysis_player_id, curr_state), visited |-> 1]
    ELSE LoopResult(LoopManyPlayers(c, child_states_of(c, curr_state), analysis_player_id,
                                    analysis_level, token, curr_state.current_player_id))

\* MutableGameState::num_players
num_players(c) == c.num_normal_players

\* find_best_turn with parallelization = 1
find_best_turn(c, s, analysis_level, token) ==
    IF num_players(c) = 2
    THEN find_best_turn_two_players(c, s, analysis_level, token,
                                    ALPHA_INITIAL, BETA_INITIAL)
    ELSE find_best_turn_many_players(c, s, s.current_player_id, analysis_level, token)

\* ------------------------------------------------------------------------
\* tree_search.rs: SpinLockedAlpha and the search find_best_turn runs for
\* two players when parallelization is not 1. The code starts no thread:
\* the queue is drained by the caller, one subroot after the other.
\* ------------------------------------------------------------------------
empty_maximum == [appraisal |-> POS_INFINITY, turn |-> <<>>, ending_state |-> <<>>]

\* SpinLockedAlpha::get_alpha on a lock that holds alpha
get_alpha(alpha) == alpha

\* faulty variant: val is stored whatever the lock holds
update_Faulty(alpha, val) == val

\* SpinLockedAlpha::update: the value stored, which is also the value returned
update(alpha, val) == IF val > alpha THEN val ELSE alpha

sorted_next_states(c, game_state, sort_ascending) ==
    sort_by_scores(c, child_states_of(c, game_state), game_state.current_player_id,
                   sort_ascending)

RECURSIVE find_best_turn_two_players_parallel_recursive(_, _, _, _, _, _, _, _)
RECURSIVE ScanParallelRecursive(_, _, _, _, _, _, _, _, _)

\* the part of an iteration of the loop of
\* find_best_turn_two_players_parallel_recursive that follows the recursive
\* call: hypo is what the call returned
AfterChildParallelRecursive(child_state, is_root_player, token, shared_alpha, loop, hypo) ==
    LET improves == IF is_root_player
                    THEN hypo.appraisal > loop.best_turn.appraisal
                    ELSE hypo.appraisal < loop.best_turn.appraisal
        new_best == IF improves
                    THEN [hypo EXCEPT !.turn = <<child_state.prev_turn>>]
                    ELSE loop.best_turn
        new_alpha == IF improves /\ is_root_player
                     THEN Max2(loop.local_alpha, new_best.appraisal)
                     ELSE loop.local_alpha
        new_beta == IF improves /\ ~is_root_player
                    THEN Min2(loop.local_beta, new_best.appraisal)
                    ELSE loop.local_beta
        cutoff == improves /\ (new_alpha >= new_beta \/ get_alpha(shared_alpha) >= new_beta)
    IN  [best_turn |-> new_best, local_alpha |-> new_alpha, local_beta |-> new_beta,
         broke |-> cutoff \/ is_cancellation_requested(token)]

\* the iterations i.. of the loop, in order, stopping at a break
ScanParallelRecursive(c, children, i, root_analysis_player_id, is_root_player, analysis_level, token, shared_alpha, loop) ==
    IF i > Len(children) \/ loop.broke THEN loop
    ELSE ScanParallelRecursive(c, children, i + 1, root_analysis_player_id, is_root_player,
             analysis_level, token, shared_alpha,
             AfterChildParallelRecursive(children[i], is_root_player, token, shared_alpha, loop,
                 find_best_turn_two_players_parallel_recursive(c, children[i],
                     root_analysis_player_id, analysis_level - 1, token, shared_alpha,
                     loop.local_alpha, loop.local_beta)))

find_best_turn_two_players_parallel_recursive(c, curr_state, root_analysis_player_id, analysis_level, token, shared_alpha, local_alpha, local_beta) ==
    IF has_winner(curr_state) \/ analysis_level = 0
    THEN from_state(c, root_analysis_player_id, curr_state)
    ELSE ScanParallelRecursive(c, two_player_children(c, curr_state, analysis_level), 1,
             root_analysis_player_id,
             curr_state.current_player_id = root_analysis_player_id,
             analysis_level, token, shared_alpha,
             [best_turn |-> IF curr_state.current_player_id = root_analysis_player_id
                            THEN empty_minimum ELSE empty_maximum,
              local_alpha |-> local_alpha, local_beta |-> local_beta,
              broke |-> FALSE]).best_turn

\* one pass of the `while` loop of find_best_turn_two_players_parallel_queue
\* on the child at the front of the queue; loop holds best_turn and the
\* value of shared_alpha
StepParallelQueue(c, analysis_player_id, child_state, analysis_level, token, beta, loop) ==
    LET alpha == get_alpha(loop.shared_alpha)
        hypo_turn == find_best_turn_two_players_parallel_recursive(c, child_state,
                         analysis_player_id, analysis_level, token, loop.shared_alpha,
                         alpha, beta)
        improves == loop.best_turn.appraisal < hypo_turn.appraisal
    IN  IF alpha >= beta THEN [loop EXCEPT !.broke = TRUE]
        ELSE IF improves
        THEN [best_turn |-> [appraisal |-> hypo_turn.appraisal,
                             turn |-> <<child_state.prev_turn>>,
                             ending_state |-> hypo_turn.ending_state],
              shared_alpha |-> update(loop.shared_alpha, hypo_turn.appraisal),
              broke |-> FALSE]
        ELSE loop

RECURSIVE ScanParallelQueue(_, _, _, _, _, _, _, _)
ScanParallelQueue(c, analysis_player_id, child_state_queue, i, analysis_level, token, beta, loop) ==
    IF is_cancellation_requested(token) \/ i > Len(child_state_queue) \/ loop.broke
    THEN loop
    ELSE ScanParallelQueue(c, analysis_player_id, child_state_queue, i + 1, analysis_level,
                           token, beta,
                           StepParallelQueue(c, analysis_player_id, child_state_queue[i],
                                             analysis_level, token, beta, loop))

find_best_turn_two_players_parallel_queue(c, analysis_player_id, child_state_queue, analysis_level, token, shared_alpha, beta) ==
    ScanParallelQueue(c, analysis_player_id, child_state_queue, 1, analysis_level, token,
                      beta,
                      [best_turn |-> empty_minimum, shared_alpha |-> shared_alpha,
                       broke |-> FALSE]).best_turn

ANALYSIS_LEVEL_TO_PARALLELIZE == 4

RECURSIVE find_best_turn_two_players_parallel_prioritized_bounds(_, _, _, _, _, _)
RECURSIVE ScanPrioritizedBounds(_, _, _, _, _, _, _, _)

\* the loop of find_best_turn_two_players_parallel_prioritized_bounds above
\* ANALYSIS_LEVEL_TO_PARALLELIZE; it counts no visited state
ScanPrioritizedBounds(c, children, i, analysis_level, token, beta, curr_player_id, loop) ==
    IF i > Len(children) \/ loop.broke THEN loop
    ELSE ScanPrioritizedBounds(c, children, i + 1, analysis_level, token, beta,
             curr_player_id,
             AfterChildTwoPlayers(children[i], token, beta,
                 curr_player_id = children[i].current_player_id, loop,
                 [result |-> find_best_turn_two_players_parallel_prioritized_bounds(
                                 c, children[i], analysis_level - 1, token,
                                 IF curr_player_id = children[i].current_player_id
                                 THEN loop.alpha ELSE -beta,
                                 IF curr_player_id = children[i].current_player_id
                                 THEN beta ELSE -loop.alpha),
                  visited |-> 0]))

find_best_turn_two_players_parallel_prioritized_bounds(c, curr_state, analysis_level, token, alpha, beta) ==
    IF analysis_level <= ANALYSIS_LEVEL_TO_PARALLELIZE
    THEN find_best_turn_two_players_parallel_queue(c, curr_state.current_player_id,
             sorted_next_states(c, curr_state, FALSE), analysis_level - 1, token,
             alpha, beta)
    ELSE ScanPrioritizedBounds(c, sorted_next_states(c, curr_state, FALSE), 1,
             analysis_level, token, beta, curr_state.current_player_id,
             [best_turn |-> empty_minimum, alpha |-> alpha, visited |-> 0,
              broke |-> FALSE]).best_turn

find_best_turn_two_players_parallel_prioritized(c, curr_state, analysis_level, token) ==
    find_best_turn_two_players_parallel_prioritized_bounds(c, curr_state, analysis_level,
                                                           token, ALPHA_INITIAL, BETA_INITIAL)

\* ------------------------------------------------------------------------
\* Boards the games of the model are played on (room.rs, board.rs)
\* ------------------------------------------------------------------------
Room(id, adjacent, visible) == [id |-> id, adjacent |-> adjacent, visible |-> visible]

\* three rooms in a row; the two far rooms see each other through the middle
TrioRooms == {Room(1, {2}, {3}), Room(2, {1, 3}, {}), Room(3, {2}, {1})}

\* four rooms in a row with a gap in the ids; rooms 2 and 3 see each other
QuadRooms == {Room(1, {2}, {}), Room(2, {1, 3}, {3}), Room(3, {2, 5}, {2}), Room(5, {3}, {})}

BoardRooms == [Trio |-> TrioRooms, Quad |-> QuadRooms]

Boards == [Trio |-> BoardNew("Trio", TrioRooms, 1, 1),
           Quad |-> BoardNew("Quad", QuadRooms, 1, 2)]

BoardNames == {"Trio", "Quad"}

\* ------------------------------------------------------------------------
\* lib.rs: the web game handle
\* ------------------------------------------------------------------------
NormalSetup(move_cards, weapon_cards, failure_cards) ==
    [move_cards |-> move_cards, weapon_cards |-> weapon_cards,
     failure_cards |-> failure_cards]

default_normal_setup ==
    NormalSetup(PLAYER_STARTING_MOVE_CARDS, PLAYER_STARTING_WEAPONS, PLAYER_STARTING_FAILURES)

\* "" is Ok(())
validate_normal_setup(setup) ==
    IF setup.move_cards < 0 THEN "moveCards must be >= 0."
    ELSE IF setup.weapon_cards < 0 THEN "weaponCards must be >= 0."
    ELSE IF setup.failure_cards < 0 THEN "failureCards must be >= 0."
    ELSE ""

apply_normal_setup_to_state(c, s, normal_setup) ==
    LET IsNormal(p) == get_player_type(c, p) = "Normal"
    IN  [s EXCEPT
           !.player_move_cards = [p \in player_ids(c) |->
                IF IsNormal(p) THEN normal_setup.move_cards ELSE @[p]],
           !.player_weapons = [p \in player_ids(c) |->
                IF IsNormal(p) THEN normal_setup.weapon_cards ELSE @[p]],
           !.player_failures = [p \in player_ids(c) |->
                IF IsNormal(p) THEN normal_setup.failure_cards ELSE @[p]]]

new_state_with_normal_setup(c, normal_setup) ==
    apply_normal_setup_to_state(c, at_start(c), normal_setup)

PieceIds == {"player1", "player2", "stranger1", "stranger2", "doctor"}

\* PieceId::to_player_id, an Option
to_player_id(piece_id) ==
    CASE piece_id = "doctor" -> <<>>
      [] piece_id = "player1" -> <<SIDE_A_NORMAL_PLAYER_ID>>
      [] piece_id = "player2" -> <<SIDE_B_NORMAL_PLAYER_ID>>
      [] piece_id = "stranger1" -> <<SIDE_B_STRANGER_PLAYER_ID>>
      [] piece_id = "stranger2" -> <<SIDE_A_STRANGER_PLAYER_ID>>

TurnPlanEntry(piece_id, room_id) == [piece_id |-> piece_id, room_id |-> room_id]

\* parse_turn_plan on the entries of a well-formed JSON plan
parse_turn_plan(entries) ==
    LET Seen(i) == \E j \in 1..(i - 1) : entries[j].piece_id = entries[i].piece_id
        Bad(i) == Seen(i) \/ to_player_id(entries[i].piece_id) = <<>>
        bads == {i \in 1..Len(entries) : Bad(i)}
        first == CHOOSE i \in bads : \A j \in bads : i <= j
    IN  IF bads = {}
        THEN [ok |-> TRUE,
              turn |-> [i \in 1..Len(entries) |->
                           PlayerMove(to_player_id(entries[i].piece_id)[1],
                                      entries[i].room_id)],
              message |-> ""]
        ELSE [ok |-> FALSE, turn |-> <<>>,
              message |-> IF Seen(first) THEN "appears more than once in the turn plan."
                          ELSE "Doctor cannot be moved."]

\* check_normal_turn as a Result message: "" is Ok(())
check_message(c, s, turn) ==
    LET r == check_normal_turn(c, s, turn) IN IF r = "ok" THEN "" ELSE r

\* ------------------------------------------------------------------------
\* lib.rs: the saved game (PersistedGameState) of the web game handle. The
\* JSON text is modelled by the value serde writes and reads back: objects
\* are records under their serialized field names, arrays are sequences.
\* ------------------------------------------------------------------------
PERSISTED_GAME_STATE_VERSION == 1

\* the prev_state chain of s, the oldest state first, s last
RECURSIVE StatesOldestFirst(_)
StatesOldestFirst(s) ==
    (IF s.prev_state = <<>> THEN <<>> ELSE StatesOldestFirst(s.prev_state[1])) \o <<s>>

\* faulty variant: the prev_turn of every state of the chain but the oldest
collect_normal_turns_Faulty(c, s) ==
    LET later == Tail(StatesOldestFirst(s))
    IN  [i \in 1..Len(later) |-> later[i].prev_turn]

collect_normal_turns(c, s) ==
    LET FollowsNormalTurn(current) ==
            /\ current.prev_state # <<>>
            /\ is_normal_turn(c, current.prev_state[1])
        kept == SelectSeq(Tail(StatesOldestFirst(s)), FollowsNormalTurn)
    IN  [i \in 1..Len(kept) |-> kept[i].prev_turn]

\* Serialize / Deserialize of SimpleTurn and PlayerMove (PascalCase)
TurnToJson(turn) ==
    [Moves |-> [i \in 1..Len(turn) |-> [PlayerId |-> turn[i].player_id,
                                         DestRoomId |-> turn[i].dest_room_id]]]

TurnFromJson(json) ==
    [i \in 1..Len(json.Moves) |-> PlayerMove(json.Moves[i].PlayerId,
                                             json.Moves[i].DestRoomId)]

\* Serialize / Deserialize of NormalSetup (camelCase)
SetupToJson(setup) ==
    [moveCards |-> setup.move_cards, weaponCards |-> setup.weapon_cards,
     failureCards |-> setup.failure_cards]

SetupFromJson(json) == NormalSetup(json.moveCards, json.weaponCards, json.failureCards)

\* GameStateHandle::export_state_json
export_state_json(c, s, handle_normal_setup) ==
    LET normal_turns == collect_normal_turns(c, s)
    IN  [version |-> PERSISTED_GAME_STATE_VERSION,
         boardName |-> c.board.name,
         normalSetup |-> SetupToJson(handle_normal_setup),
         normalTurns |-> [i \in 1..Len(normal_turns) |-> TurnToJson(normal_turns[i])]]

\* the `for (turn_idx, turn) in snapshot.normal_turns` loop of
\* import_state_json from turn i on: the state restored, or the turn refused
RECURSIVE RestoreTurns(_, _, _, _)
RestoreTurns(c, restored, normal_turns, i) ==
    IF i > Len(normal_turns) THEN [ok |-> TRUE, state |-> restored]
    ELSE IF check_message(c, restored, TurnFromJson(normal_turns[i])) # ""
    THEN [ok |-> FALSE, turn_idx |-> i,
          message |-> check_message(c, restored, TurnFromJson(normal_turns[i]))]
    ELSE RestoreTurns(c, after_normal_turn(c, restored, TurnFromJson(normal_turns[i]), TRUE),
                      normal_turns, i + 1)

\* GameStateHandle::import_state_json on JSON that deserializes: the state
\* and the normal_setup of the handle and the message returned (a format!
\* text is the tuple of its parts, String::new() is the empty tuple)
import_state_json(c, s, handle_normal_setup, snapshot) ==
    LET Refused(message) ==
            [state |-> s, normal_setup |-> handle_normal_setup, reply |-> message]
        setup == SetupFromJson(snapshot.normalSetup)
        restored == RestoreTurns(c, new_state_with_normal_setup(c, setup),
                                 snapshot.normalTurns, 1)
    IN  IF snapshot.version # PERSISTED_GAME_STATE_VERSION
        THEN Refused(<<"Unsupported saved game version", snapshot.version>>)
        ELSE IF snapshot.boardName # c.board.name
        THEN Refused(<<"Saved game board does not match current board",
                       snapshot.boardName, c.board.name>>)
        ELSE IF validate_normal_setup(setup) # ""
        THEN Refused(<<"Saved game has invalid setup", validate_normal_setup(setup)>>)
        ELSE IF ~restored.ok
        THEN Refused(<<"Saved game turn is invalid", restored.turn_idx, restored.message>>)
        ELSE [state |-> restored.state, normal_setup |-> setup, reply |-> <<>>]

\* ------------------------------------------------------------------------
\* Inputs of the operations
\* ------------------------------------------------------------------------
\* a room id no board of the model has, inside and outside the matrices
BadRoomIds == {0, 7}

InputRoomIds(c) == SeqToSet(c.board.room_ids) \cup BadRoomIds

PlanPairs ==
    {<<"player1", "stranger1">>, <<"player2", "stranger2">>,
     <<"player1", "player1">>, <<"stranger1", "stranger2">>}

\* the plans the page sends: empty, one piece, or two pieces sent to one room
TurnPlans(c) ==
    {<<>>}
      \cup {<<TurnPlanEntry(piece, r)>> : piece \in PieceIds, r \in InputRoomIds(c)}
      \cup {<<TurnPlanEntry(pair[1], r), TurnPlanEntry(pair[2], r)>> :
              pair \in PlanPairs, r \in SeqToSet(c.board.room_ids)}

SetupInputs ==
    {default_normal_setup, NormalSetup(0, 0, 0), NormalSetup(-CardUnit, 0, 0)}

\* a token of a CLI move directive, split at '@': <<room>> (the mover
\* defaults to the current player) or <<player, room>>; player is the
\* displayed number, and 0 does not name a player
TokenPairs == {<<1, 2>>, <<3, 4>>, <<2, 3>>}

MoveTokenLists(c) ==
    {<<>>}
      \cup {<< <<r>> >> : r \in InputRoomIds(c)}
      \cup {<< <<n, r>> >> : n \in 0..(c.num_all_players + 1), r \in InputRoomIds(c)}
      \cup {<< <<pair[1], r1>>, <<pair[2], r2>> >> :
              pair \in TokenPairs, r1 \in SeqToSet(c.board.room_ids),
              r2 \in SeqToSet(c.board.room_ids)}

\* the token loop of do_moves_tokens: the moves, or a parse error
parse_move_tokens(s, tokens) ==
    LET default_player_display_num == s.current_player_id + 1
        player_display_num(i) == IF Len(tokens[i]) >= 2 THEN tokens[i][1]
                                 ELSE default_player_display_num
        dest_room_id(i) == IF Len(tokens[i]) = 1 THEN tokens[i][1] ELSE tokens[i][2]
    IN  IF \E i \in 1..Len(tokens) : player_display_num(i) = 0
        THEN [has_parse_errors |-> TRUE, moves |-> <<>>]
        ELSE [has_parse_errors |-> FALSE,
              moves |-> [i \in 1..Len(tokens) |->
                            PlayerMove(player_display_num(i) - 1, dest_room_id(i))]]

\* ------------------------------------------------------------------------
\* The turn notation: a text is the sequence of its characters.
\* player.rs (Display for PlayerMove, player_moves_to_nice_string),
\* simple_turn.rs (Display) and the way session.rs reads a line back
\* ------------------------------------------------------------------------
DigitChars == <<"0", "1", "2", "3", "4", "5", "6", "7", "8", "9">>

IsDigit(ch) == \E d \in 1..10 : DigitChars[d] = ch

DigitValue(ch) == (CHOOSE d \in 1..10 : DigitChars[d] = ch) - 1

\* Display of a usize
RECURSIVE UsizeToString(_)
UsizeToString(n) ==
    IF n < 10 THEN <<DigitChars[n + 1]>>
    ELSE UsizeToString(n \div 10) \o <<DigitChars[(n % 10) + 1]>>

\* Display for PlayerMove: "{}@{}" of player_id + 1 and dest_room_id; the
\* addition overflows on the INVALID id
PlayerMoveToString(player_move) ==
    LET display == to_player_display_num(player_move.player_id)
    IN  [panics |-> display.panics,
         text |-> UsizeToString(display.num) \o <<"@">>
                    \o UsizeToString(player_move.dest_room_id)]

\* join(" ")
RECURSIVE JoinTexts(_, _)
JoinTexts(texts, sep) ==
    IF texts = <<>> THEN <<>>
    ELSE IF Len(texts) = 1 THEN texts[1]
    ELSE texts[1] \o sep \o JoinTexts(Tail(texts), sep)

player_moves_to_nice_string(moves) ==
    [panics |-> \E i \in 1..Len(moves) : PlayerMoveToString(moves[i]).panics,
     text |-> JoinTexts([i \in 1..Len(moves) |-> PlayerMoveToString(moves[i]).text],
                        <<" ">>) \o <<";">>]

\* str::split at the characters of seps: one piece more than separators
RECURSIVE SplitText(_, _)
SplitText(text, seps) ==
    IF \A i \in 1..Len(text) : text[i] \notin seps THEN <<text>>
    ELSE LET at == CHOOSE i \in 1..Len(text) :
                      text[i] \in seps /\ \A j \in 1..(i - 1) : text[j] \notin seps
         IN  <<SubSeq(text, 1, at - 1)>> \o SplitText(SubSeq(text, at + 1, Len(text)), seps)

IsNonEmptyText(text) == text # <<>>

\* str::split_whitespace
split_whitespace(text) == SelectSeq(SplitText(text, {" "}), IsNonEmptyText)

\* Session::without_comments: every "(...)" is cut, and an unclosed "(" cuts
\* the rest
RECURSIVE without_comments(_)
without_comments(directive) ==
    IF \A i \in 1..Len(directive) : directive[i] # "(" THEN directive
    ELSE LET start_idx == CHOOSE i \in 1..Len(directive) :
                             directive[i] = "(" /\ \A j \in 1..(i - 1) : directive[j] # "("
             closes == {i \in start_idx..Len(directive) : directive[i] = ")"}
             end_idx == CHOOSE i \in closes : \A j \in closes : i <= j
         IN  IF closes = {} THEN SubSeq(directive, 1, start_idx - 1)
             ELSE without_comments(SubSeq(directive, 1, start_idx - 1)
                                     \o SubSeq(directive, end_idx + 1, Len(directive)))

\* str::parse::<usize>: an Option; digits, after an optional "+"
RECURSIVE DigitsValue(_)
DigitsValue(digits) ==
    IF digits = <<>> THEN 0
    ELSE 10 * DigitsValue(SubSeq(digits, 1, Len(digits) - 1)) + DigitValue(digits[Len(digits)])

parse_usize(text) ==
    LET digits == IF text # <<>> /\ text[1] = "+" THEN Tail(text) ELSE text
    IN  IF digits # <<>> /\ \A i \in 1..Len(digits) : IsDigit(digits[i])
        THEN <<DigitsValue(digits)>>
        ELSE <<>>

\* the directives of a line that interpretation_loop hands to
\* do_moves_tokens, each as its tokens: the line is split at ';', comments
\* are cut, and a directive whose first token starts with a digit is a list
\* of moves (no other directive tag starts with a digit)
move_directives(line) ==
    LET sublines == SplitText(line, {";"})
        tokens_of == [i \in 1..Len(sublines) |-> split_whitespace(without_comments(sublines[i]))]
        IsMoves(tokens) == tokens # <<>> /\ IsDigit(tokens[1][1])
    IN  SelectSeq(tokens_of, IsMoves)

\* the token loop of do_moves_tokens on the text of the tokens: a token is
\* split at ',' and '@' and its parts are parsed as usize
parse_move_text_tokens(s, tokens) ==
    LET subtokens(i) == SplitText(tokens[i], {",", "@"})
        dest_room_subtoken(i) ==
            IF Len(subtokens(i)) = 1 THEN subtokens(i)[1] ELSE subtokens(i)[2]
        Fails(i) ==
            \/ parse_usize(dest_room_subtoken(i)) = <<>>
            \/ Len(subtokens(i)) >= 2 /\ parse_usize(subtokens(i)[1]) = <<>>
        Numbers(i) ==
            IF Len(subtokens(i)) = 1 THEN <<parse_usize(subtokens(i)[1])[1]>>
            ELSE <<parse_usize(subtokens(i)[1])[1], parse_usize(subtokens(i)[2])[1]>>
    IN  IF \E i \in 1..Len(tokens) : Fails(i)
        THEN [has_parse_errors |-> TRUE, moves |-> <<>>]
        ELSE parse_move_tokens(s, [i \in 1..Len(tokens) |-> Numbers(i)])

\* ------------------------------------------------------------------------
\* State of a running program: a web game handle or a CLI session
\* ------------------------------------------------------------------------
VARIABLES
    frontend,               \* "web" (GameStateHandle) or "cli" (Session)
    common,                 \* CommonGameState of the game
    state,                  \* the MutableGameState: handle.state / session.game
    normal_setup,           \* handle.normal_setup
    analysis_level,         \* session.analysis_level
    recent_analyzed_turn,   \* session.recent_analyzed_turn, an Option
    reply,                  \* what it returned or printed; "" is success
    analysis                \* the find_best_turn call the last directive made and
                            \* its result, an Option

\* the SpinLockedAlpha the workers of a search share (tree_search.rs)
VARIABLES
    locked_alpha,           \* the f64 inside the Mutex
    lock_holder,            \* the worker that holds the Mutex, 0 when it is free
    worker                  \* of each worker: where it is in get_alpha or update,
                            \* the val it passed, the alpha it found when it took the
                            \* lock, what its last call was and what that call returned

alpha_vars == <<locked_alpha, lock_holder, worker>>

vars == <<overflow_checks, frontend, common, state, normal_setup, analysis_level,
          recent_analyzed_turn, reply, analysis, locked_alpha, lock_holder, worker>>

\* workers that may call into one SpinLockedAlpha
NumWorkers == 2

Workers == 1..NumWorkers

IdleWorker == [pc |-> "idle", val |-> 0, seen |-> 0, last |-> "none", ret |-> 0]

\* SpinLockedAlpha::new(alpha) with no call in progress
NewSpinLockedAlpha(alpha) ==
    /\ locked_alpha = alpha
    /\ lock_holder = 0
    /\ worker = [w \in Workers |-> IdleWorker]

\* a game of the model: the frontend, the board, the number of normal
\* players and the profile of the build
GameSetup(setup_frontend, board, num_normal_players, checks) ==
    [frontend |-> setup_frontend, board |-> board,
     num_normal_players |-> num_normal_players, overflow_checks |-> checks]

GameSetups ==
    {GameSetup("web", "Quad", 2, FALSE),
     GameSetup("cli", "Trio", 2, FALSE),
     GameSetup("cli", "Trio", 3, TRUE)}

\* new_default_game_state (web) or Session::start after the board and the
\* number of players were chosen (cli, reset_game_with_problems)
InitGame(setups) ==
    /\ \E setup \in setups :
          /\ overflow_checks = setup.overflow_checks
          /\ frontend = setup.frontend
          /\ frontend = "web" => setup.num_normal_players = 2
          /\ frontend = "cli" => BoardIsValid(BoardRooms[setup.board], Boards[setup.board])
          /\ common = CommonGameState(Boards[setup.board], setup.num_normal_players)
    /\ state = IF frontend = "web"
               THEN new_state_with_normal_setup(common, default_normal_setup)
               ELSE at_start(common)
    /\ normal_setup = default_normal_setup
    /\ analysis_level = 1
    /\ recent_analyzed_turn = <<>>
    /\ reply = ""
    /\ analysis = <<>>

\* SpinLockedAlpha::default()
Init == InitGame(GameSetups) /\ NewSpinLockedAlpha(HEURISTIC_SCORE_LOSS)

\* GameStateHandle::start_new_game_with_setup
StartNewGameWithSetup(setup) ==
    /\ frontend = "web"
    /\ reply' = validate_normal_setup(setup)
    /\ IF reply' # ""
       THEN UNCHANGED <<state, normal_setup>>
       ELSE /\ normal_setup' = setup
            /\ state' = new_state_with_normal_setup(common, setup)
    /\ UNCHANGED alpha_vars
    /\ UNCHANGED <<overflow_checks, frontend, common, analysis_level, recent_analyzed_turn,
                   analysis>>

\* GameStateHandle::validate_turn_plan: the message returned
validate_turn_plan(c, s, entries) ==
    LET parsed == parse_turn_plan(entries)
    IN  IF ~parsed.ok THEN parsed.message ELSE check_message(c, s, parsed.turn)

\* faulty variant: the turn is applied before its distance and its pieces are checked
apply_turn_plan_Faulty(c, s, entries) ==
    LET parsed == parse_turn_plan(entries)
        message == IF ~parsed.ok THEN parsed.message ELSE check_message(c, s, parsed.turn)
    IN  [state |-> IF message \in {"used too many move points", "tried to move non-stranger"}
                      \/ message = ""
                   THEN after_normal_turn(c, s, parsed.turn, TRUE) ELSE s,
         reply |-> message]

\* GameStateHandle::apply_turn_plan: the state of the handle and the message returned
apply_turn_plan(c, s, entries) ==
    LET parsed == parse_turn_plan(entries)
        message == IF ~parsed.ok THEN parsed.message ELSE check_message(c, s, parsed.turn)
    IN  [state |-> IF message # "" THEN s ELSE after_normal_turn(c, s, parsed.turn, TRUE),
         reply |-> message]

ValidateTurnPlan(entries) ==
    /\ frontend = "web"
    /\ reply' = validate_turn_plan(common, state, entries)
    /\ UNCHANGED alpha_vars
    /\ UNCHANGED <<overflow_checks, frontend, common, state, normal_setup, analysis_level,
                   recent_analyzed_turn, analysis>>

ApplyTurnPlan(entries) ==
    /\ frontend = "web"
    /\ state.turn_id < MaxTurnId
    /\ \E applied \in {apply_turn_plan(common, state, entries)} :
           /\ reply' = applied.reply
           /\ state' = applied.state
    /\ UNCHANGED alpha_vars
    /\ UNCHANGED <<overflow_checks, frontend, common, normal_setup, analysis_level,
                   recent_analyzed_turn, analysis>>

\* Session::do_moves_turn: the new game state, recent_analyzed_turn and message
do_moves_turn(c, s, turn) ==
    LET message == check_message(c, s, turn)
    IN  [state |-> IF message # "" THEN s ELSE after_normal_turn(c, s, turn, TRUE),
         recent_analyzed_turn |-> <<>>,
         reply |-> message]

\* Session::do_moves_tokens: the new game state, recent_analyzed_turn and message
do_moves_tokens(c, s, recent, tokens) ==
    LET parsed == parse_move_tokens(s, tokens)
    IN  IF has_winner(s)
        THEN [state |-> s, recent_analyzed_turn |-> recent,
              reply |-> "won already.  Moves not accepted."]
        ELSE IF parsed.has_parse_errors
        THEN [state |-> s, recent_analyzed_turn |-> recent, reply |-> "failed parse"]
        ELSE do_moves_turn(c, s, parsed.moves)

\* a directive that is a list of moves
DoMovesTokens(tokens, max_turn_id) ==
    /\ frontend = "cli"
    /\ state.turn_id < max_turn_id
    /\ \E done \in {do_moves_tokens(common, state, recent_analyzed_turn, tokens)} :
           /\ reply' = done.reply
           /\ state' = done.state
           /\ recent_analyzed_turn' = done.recent_analyzed_turn
    /\ analysis' = <<>>
    /\ UNCHANGED alpha_vars
    /\ UNCHANGED <<overflow_checks, frontend, common, normal_setup, analysis_level>>

\* the part of Session::analyze that follows the find_best_turn call
after_find_best_turn(c, session, do_suggested_move, level, found) ==
    LET turn == found.result.turn
        done == do_moves_turn(c, session.state, turn[1])
        call == <<[state |-> session.state, level |-> level,
                   appraisal |-> found.result.appraisal, turn |-> turn,
                   visited |-> found.visited]>>
    IN  IF do_suggested_move /\ turn # <<>>
        THEN [state |-> done.state, recent_analyzed_turn |-> done.recent_analyzed_turn,
              reply |-> done.reply, analysis |-> call]
        ELSE [state |-> session.state,
              recent_analyzed_turn |-> IF turn # <<>> THEN turn
                                       ELSE session.recent_analyzed_turn,
              reply |-> "", analysis |-> call]

\* Session::analyze: one find_best_turn call, executed when do_suggested_move
analyze(c, session, do_suggested_move, level) ==
    after_find_best_turn(c, session, do_suggested_move, level,
                         find_best_turn(c, session.state, level, "never"))

\* the `while (level as f64) <= self.analysis_level` loop of the analyze directives
RECURSIVE AnalyzeLevels(_, _, _, _, _)
AnalyzeLevels(c, session, do_suggested_move, level, last_level) ==
    IF level > last_level THEN session
    ELSE AnalyzeLevels(c, analyze(c, session, do_suggested_move, level),
                       do_suggested_move, level + 1, last_level)

\* the directives a, aa and e with a level token
AnalyzeDirective(directive_tag, level) ==
    /\ frontend = "cli"
    /\ directive_tag = "e" => state.turn_id < MaxSearchTurnId
    /\ analysis_level' = level
    /\ LET start_level == IF directive_tag = "aa" THEN 1 ELSE level
           session == [state |-> state, recent_analyzed_turn |-> recent_analyzed_turn,
                       reply |-> "", analysis |-> <<>>]
       IN  \E done \in {AnalyzeLevels(common, session, directive_tag = "e",
                                       start_level, level)} :
               /\ state' = done.state
               /\ recent_analyzed_turn' = done.recent_analyzed_turn
               /\ reply' = done.reply
               /\ analysis' = done.analysis
    /\ UNCHANGED alpha_vars
    /\ UNCHANGED <<overflow_checks, frontend, common, normal_setup>>

\* the directive ep
ExecutePreviousAnalysis ==
    /\ frontend = "cli"
    /\ state.turn_id < MaxSearchTurnId
    /\ IF recent_analyzed_turn # <<>>
       THEN \E done \in {do_moves_turn(common, state, recent_analyzed_turn[1])} :
                /\ state' = done.state
                /\ recent_analyzed_turn' = done.recent_analyzed_turn
                /\ reply' = done.reply
       ELSE /\ reply' = "no recent analyzed move"
            /\ UNCHANGED <<state, recent_analyzed_turn>>
    /\ analysis' = <<>>
    /\ UNCHANGED alpha_vars
    /\ UNCHANGED <<overflow_checks, frontend, common, normal_setup, analysis_level>>

\* Session::handle_set_value on tokens that parse as numbers; attribute_value
\* is the parsed f64 in units of 1/CardUnit: `as i32` truncates it toward
\* zero and `as usize` moreover takes a negative value to 0
handle_set_value(c, s, recent, player_num, attribute_name, attribute_value) ==
    LET usage == [state |-> s, recent_analyzed_turn |-> recent,
                  reply |-> "setvalue directive needs following tokens"]
        player_id == player_num - 1
        as_i32 == TruncCards(attribute_value)
        as_usize == Max2(TruncCards(attribute_value), 0)
        Set(new_state) == [state |-> new_state, recent_analyzed_turn |-> <<>>, reply |-> ""]
    IN  IF player_num < 0 \/ player_num > c.num_all_players THEN usage
        ELSE IF attribute_name \in {"r", "room"}
        THEN IF as_usize \notin SeqToSet(c.board.room_ids)
             THEN [state |-> s, recent_analyzed_turn |-> recent, reply |-> "invalid room id"]
             ELSE IF player_num = 0
             THEN Set([s EXCEPT !.doctor_room_id = as_usize])
             ELSE Set([s EXCEPT !.player_room_ids[player_id] = as_usize])
        ELSE IF player_id < 0 THEN usage
        ELSE IF attribute_name \in {"s", "strength"}
        THEN Set([s EXCEPT !.player_strengths[player_id] = as_i32])
        ELSE IF attribute_name \in {"m", "moves"}
        THEN Set([s EXCEPT !.player_move_cards[player_id] = attribute_value])
        ELSE IF attribute_name \in {"w", "weapons"}
        THEN Set([s EXCEPT !.player_weapons[player_id] = attribute_value])
        ELSE IF attribute_name \in {"f", "failures"}
        THEN Set([s EXCEPT !.player_failures[player_id] = attribute_value])
        ELSE IF attribute_name \in {"t", "turn"}
        THEN Set([s EXCEPT !.turn_id = as_i32, !.current_player_id = player_id])
        ELSE Set(s)

\* the directive sv
SetValue(player_num, attribute_name, attribute_value) ==
    /\ frontend = "cli"
    /\ LET done == handle_set_value(common, state, recent_analyzed_turn, player_num,
                                    attribute_name, attribute_value)
       IN  /\ state' = done.state
           /\ recent_analyzed_turn' = done.recent_analyzed_turn
           /\ reply' = done.reply
    /\ analysis' = <<>>
    /\ UNCHANGED alpha_vars
    /\ UNCHANGED <<overflow_checks, frontend, common, normal_setup, analysis_level>>

\* faulty variant: one step back along the chain, whoever is active there
undo_last_turn_Faulty(c, s) ==
    IF s.prev_state = <<>> THEN [state |-> s, ok |-> FALSE]
    ELSE [state |-> s.prev_state[1], ok |-> TRUE]

\* GameStateHandle::undo_last_turn and the loop of the undo directive of
\* Session::interpret_directive: the state they leave, and whether a state
\* with a normal player active was found
RECURSIVE undo_last_turn(_, _)
undo_last_turn(c, s) ==
    IF s.prev_state = <<>> THEN [state |-> s, ok |-> FALSE]
    ELSE IF is_normal_turn(c, s.prev_state[1])
    THEN [state |-> s.prev_state[1], ok |-> TRUE]
    ELSE undo_last_turn(c, s.prev_state[1])

\* undoLastTurn of the web handle returns the bool; the undo directive prints
\* its tag and the summary of the game
UndoLastTurn ==
    /\ \E undone \in {undo_last_turn(common, state)} :
           /\ state' = undone.state
           /\ reply' = IF frontend = "cli" THEN "(UNDO)"
                       ELSE IF undone.ok THEN "true" ELSE "false"
    /\ analysis' = <<>>
    /\ UNCHANGED alpha_vars
    /\ UNCHANGED <<overflow_checks, frontend, common, normal_setup, analysis_level,
                   recent_analyzed_turn>>

\* sv directives: half a move card owed, the second piece made the active
\* player of turn 1
SetValueInputs == {<<1, "m", -(CardUnit \div 2)>>, <<2, "t", CardUnit>>}

Next ==
    \/ \E setup \in SetupInputs : StartNewGameWithSetup(setup)
    \/ \E entries \in TurnPlans(common) : ValidateTurnPlan(entries)
    \/ \E entries \in TurnPlans(common) : ApplyTurnPlan(entries)
    \/ \E tokens \in MoveTokenLists(common) : DoMovesTokens(tokens, MaxTurnId)
    \/ \E input \in SetValueInputs :
          /\ state.turn_id = 1
          /\ SetValue(input[1], input[2], input[3])

Spec == Init /\ [][Next]_vars

\* ------------------------------------------------------------------------
\* The same sessions with turns taken back
\* ------------------------------------------------------------------------
UndoNext ==
    \/ Next
    \/ UndoLastTurn

UndoSpec == Init /\ [][UndoNext]_vars

\* ------------------------------------------------------------------------
\* A CLI session that analyses: games set up for the tree search
\* ------------------------------------------------------------------------
SearchSetups ==
    {GameSetup("cli", "Trio", 2, FALSE),
     GameSetup("cli", "Trio", 3, FALSE)}

\* analyze directives: the tag and the level; the session analyses deeper
\* than two levels only before the first turn
AnalyzeInputs == {<<"a", 0>>, <<"a", 1>>, <<"a", 2>>, <<"a", 3>>, <<"aa", 1>>, <<"e", 1>>}

\* move directives of the analysing session
SearchTokenLists == {<< <<2>> >>, << <<3>> >>, << <<2, 2>> >>, << <<7>> >>}

\* sv directives of the analysing session: a player without failure cards,
\* a player that owes two move cards and so has no turn to make
SearchSetValueInputs == {<<1, "f", 0>>, <<3, "f", 0>>, <<3, "m", -2 * CardUnit>>}

SearchInit == InitGame(SearchSetups) /\ NewSpinLockedAlpha(HEURISTIC_SCORE_LOSS)

SearchNext ==
    \/ \E tokens \in SearchTokenLists : DoMovesTokens(tokens, MaxSearchTurnId)
    \/ \E input \in AnalyzeInputs :
          /\ input[2] > 2 => state.turn_id = 1
          /\ AnalyzeDirective(input[1], input[2])
    \/ ExecutePreviousAnalysis
    \/ \E input \in SearchSetValueInputs :
          /\ state.turn_id = 1
          /\ SetValue(input[1], input[2], input[3])

SearchSpec == SearchInit /\ [][SearchNext]_vars

\* ------------------------------------------------------------------------
\* A CLI session that loads boards: every board of at most four rooms with
\* ids from 0 whose doors open both ways, every board of the rooms 1..3 with
\* two-way doors and lines of sight, and boards with a one-way door or sight
\* ------------------------------------------------------------------------
MaxSurveyRoomId == 3
MaxSurveyTurnId == 2

SurveyDoors(ids) == {door \in SUBSET ids : Cardinality(door) = 2}

\* the rooms of the board with the given ids and doors; no room sees another
RoomsOf(ids, doors) ==
    {Room(id, {other \in ids : {id, other} \in doors}, {}) : id \in ids}

\* the rooms of a board whose rooms see each other across the given pairs
RoomsInSight(ids, doors, sights) ==
    {Room(id, {other \in ids : {id, other} \in doors},
              {other \in ids : {id, other} \in sights}) : id \in ids}

SurveyRooms ==
    {RoomsOf(ids, doors) :
        ids \in {some \in SUBSET (0..MaxSurveyRoomId) : 1 \in some},
        doors \in SUBSET SurveyDoors(0..MaxSurveyRoomId)}
      \cup {{Room(1, {2}, {}), Room(2, {}, {})},
            {Room(0, {}, {}), Room(1, {0}, {}), Room(2, {}, {})}}
      \cup {RoomsInSight(1..3, doors, sights) :
               doors \in SUBSET SurveyDoors(1..3), sights \in SUBSET SurveyDoors(1..3)}
      \cup {{Room(1, {2}, {2}), Room(2, {1}, {})}}

\* Session::reset_game on a board file with the given rooms whose start
\* rooms are all room 1 and whose wings are open: Board::new, is_valid,
\* at_start
LoadBoard(rooms) ==
    /\ frontend = "cli"
    /\ \E board \in {BoardNew("Survey", rooms, 1, 1)} :
          IF BoardIsValid(rooms, board)
          THEN /\ common' = CommonGameState(board, common.num_normal_players)
               /\ state' = at_start(common')
               /\ reply' = ""
          ELSE /\ reply' = "problems resetting game"
               /\ UNCHANGED <<common, state>>
    /\ analysis' = <<>>
    /\ UNCHANGED alpha_vars
    /\ UNCHANGED <<overflow_checks, frontend, normal_setup, analysis_level,
                   recent_analyzed_turn>>

BoardInit ==
    /\ InitGame({GameSetup("cli", "Trio", 2, FALSE)})
    /\ NewSpinLockedAlpha(HEURISTIC_SCORE_LOSS)

\* the session loads one board, in place of the board it started with
BoardNext ==
    \/ \E rooms \in SurveyRooms :
          /\ common.board.name = "Trio"
          /\ LoadBoard(rooms)
    \/ \E tokens \in MoveTokenLists(common) : DoMovesTokens(tokens, MaxSurveyTurnId)

BoardSpec == BoardInit /\ [][BoardNext]_vars

\* ------------------------------------------------------------------------
\* Workers that share one SpinLockedAlpha: every call takes the Mutex, works
\* on the f64 and drops the guard on return
\* ------------------------------------------------------------------------
game_vars == <<overflow_checks, frontend, common, state, normal_setup, analysis_level,
               recent_analyzed_turn, reply, analysis>>

\* the values workers pass to update: scores of leaves and both bounds
AlphaValues == {HEURISTIC_SCORE_LOSS, -ScoreUnit, 0, ScoreUnit, HEURISTIC_SCORE_WIN}

\* get_alpha: self.alpha.lock()
GetAlphaLock(w) ==
    /\ worker[w].pc = "idle"
    /\ lock_holder = 0
    /\ lock_holder' = w
    /\ worker' = [worker EXCEPT ![w].pc = "get_locked", ![w].seen = locked_alpha]
    /\ UNCHANGED <<locked_alpha, game_vars>>

\* get_alpha: the value is read and the guard dropped
GetAlphaReturn(w) ==
    /\ worker[w].pc = "get_locked"
    /\ lock_holder = w
    /\ lock_holder' = 0
    /\ worker' = [worker EXCEPT ![w].pc = "idle", ![w].last = "get_alpha",
                                ![w].ret = get_alpha(locked_alpha)]
    /\ UNCHANGED <<locked_alpha, game_vars>>

\* update(val): self.alpha.lock()
UpdateLock(w, val) ==
    /\ worker[w].pc = "idle"
    /\ lock_holder = 0
    /\ lock_holder' = w
    /\ worker' = [worker EXCEPT ![w].pc = "update_locked", ![w].val = val,
                                ![w].seen = locked_alpha]
    /\ UNCHANGED <<locked_alpha, game_vars>>

\* update(val): if val > *alpha { *alpha = val; }
UpdateStore(w) ==
    /\ worker[w].pc = "update_locked"
    /\ lock_holder = w
    /\ locked_alpha' = update(locked_alpha, worker[w].val)
    /\ worker' = [worker EXCEPT ![w].pc = "update_stored"]
    /\ UNCHANGED <<lock_holder, game_vars>>

\* update(val): *alpha is returned and the guard dropped
UpdateReturn(w) ==
    /\ worker[w].pc = "update_stored"
    /\ lock_holder = w
    /\ lock_holder' = 0
    /\ worker' = [worker EXCEPT ![w].pc = "idle", ![w].last = "update",
                                ![w].ret = locked_alpha]
    /\ UNCHANGED <<locked_alpha, game_vars>>

AlphaInit ==
    /\ InitGame({GameSetup("cli", "Trio", 2, FALSE)})
    /\ \E alpha \in {ALPHA_INITIAL, 0} : NewSpinLockedAlpha(alpha)

AlphaNext ==
    \E w \in Workers :
        \/ GetAlphaLock(w)
        \/ GetAlphaReturn(w)
        \/ \E val \in AlphaValues : UpdateLock(w, val)
        \/ UpdateStore(w)
        \/ UpdateReturn(w)

AlphaSpec == AlphaInit /\ [][AlphaNext]_vars

\* ------------------------------------------------------------------------
\* Properties
\* ------------------------------------------------------------------------
\* the states of the prev_state chain of s, s included
RECURSIVE StateHistory(_)
StateHistory(s) ==
    {s} \cup (IF s.prev_state = <<>> THEN {} ELSE StateHistory(s.prev_state[1]))

\* turns of one or two moves over player ids inside and outside the roster
\* and room ids inside and outside the board
ClaimPlayerIds(c) == {INVALID_PLAYER_ID} \cup 0..c.num_all_players

ClaimMoves(c) == {PlayerMove(p, r) : p \in ClaimPlayerIds(c), r \in InputRoomIds(c)}

ClaimTurns(c) ==
    {<<>>} \cup {<<mv>> : mv \in ClaimMoves(c)}
           \cup {<<mv1, mv2>> : mv1 \in ClaimMoves(c),
                                mv2 \in {mv \in ClaimMoves(c) :
                                            mv.dest_room_id \in {2, 3, 7}}}

\* the turns whose player ids and room ids exist: the empty turn, every
\* single move and the pairs of moves whose second move goes to room 2 or 3
WellFormedMoves(c) ==
    {PlayerMove(p, r) : p \in player_ids(c), r \in SeqToSet(c.board.room_ids)}

WellFormedTurns(c) ==
    {<<>>} \cup {<<mv>> : mv \in WellFormedMoves(c)}
           \cup {<<mv1, mv2>> : mv1 \in WellFormedMoves(c),
                                mv2 \in {mv \in WellFormedMoves(c) :
                                            mv.dest_room_id \in {2, 3}}}

LegalTurns(c, s) == {turn \in WellFormedTurns(c) : check_normal_turn(c, s, turn) = "ok"}

\* ------------------------------------------------------------------------
\* A game resolved one (sub-)turn at a time: after_normal_turn up to its
\* call of after_stranger_turn, and each after_stranger_turn call up to the
\* call it makes in turn
\* ------------------------------------------------------------------------
\* faulty variant: a stranger the doctor activates after the first round is
\* not given its turn
StrangerComesNext_Faulty(c, s) ==
    ~has_winner(s) /\ ~is_normal_turn(c, s) /\ s.turn_id <= c.num_all_players

\* `!self.has_winner() && !self.is_normal_turn()`, the condition under which
\* after_normal_turn and after_stranger_turn call after_stranger_turn
StrangerComesNext(c, s) == ~has_winner(s) /\ ~is_normal_turn(c, s)

\* the games with strangers
TurnSetups == {setup \in GameSetups : setup.num_normal_players = 2}

TurnInit == InitGame(TurnSetups) /\ NewSpinLockedAlpha(HEURISTIC_SCORE_LOSS)

\* after_normal_turn(turn, true) on a turn that passed check_normal_turn,
\* up to its last `if`
NormalTurnStep(turn) ==
    /\ ~has_winner(state)
    /\ is_normal_turn(common, state)
    /\ state.turn_id < MaxStepTurnId
    /\ \E moved \in {PayAndMove(common, state, turn, TRUE)} :
       \E acted \in {ActAfterMoves(common, moved, turn)} :
       \E next \in {DoctorPhaseAndTurnId(common, acted)} :
           state' = next
    /\ UNCHANGED alpha_vars
    /\ UNCHANGED <<overflow_checks, frontend, common, normal_setup, analysis_level,
                   recent_analyzed_turn, reply, analysis>>

\* one call of after_stranger_turn(true), up to its last `if`
StrangerTurnStep ==
    /\ StrangerComesNext(common, state)
    /\ \E s0 \in {[state EXCEPT !.prev_state = <<state>>]} :
       \E first_action \in {best_action_allowed(common, s0, FALSE)} :
       \E new_room_id \in {IF first_action = "Attack"
                           THEN s0.player_room_ids[s0.current_player_id]
                           ELSE next_room_id(s0.player_room_ids[s0.current_player_id],
                                             -1, common.board.room_ids)} :
       \E s1 \in {[s0 EXCEPT !.player_room_ids[s0.current_player_id] = new_room_id]} :
       \E best_action \in {IF first_action # "Attack"
                           THEN best_action_allowed(common, s1, FALSE)
                           ELSE first_action} :
       \E attack \in {IF best_action = "Attack" THEN process_attack(common, s1)
                      ELSE [state |-> s1, success |-> FALSE]} :
       \E acted \in {StrangerAttackOutcome(common, attack)} :
       \E next \in {DoctorPhaseAndTurnId(common, acted)} :
           state' = next
    /\ UNCHANGED alpha_vars
    /\ UNCHANGED <<overflow_checks, frontend, common, normal_setup, analysis_level,
                   recent_analyzed_turn, reply, analysis>>

TurnNext ==
    \/ \E turn \in LegalTurns(common, state) : NormalTurnStep(turn)
    \/ StrangerTurnStep

\* a call of after_stranger_turn that is due is made: the caller is in the
\* middle of its own last statement
TurnSpec == TurnInit /\ [][TurnNext]_vars /\ WF_vars(StrangerTurnStep)

\* C1: two states that compare equal under == give, for every turn legal in
\* both, successors that compare equal under ==.
C1_EqualStatesEqualSuccessors ==
    \A s1 \in StateHistory(state) : \A s2 \in StateHistory(state) :
        (/\ s1 # s2
         /\ StateEq(s1, s2)
         /\ is_normal_turn(common, s1))
        => \A turn \in LegalTurns(common, s1) \cap LegalTurns(common, s2) :
              StateEq(game_after_turn(common, s1, turn), game_after_turn(common, s2, turn))

\* the fields of the game a finished game must keep
SameGame(a, b) ==
    /\ a.winner = b.winner
    /\ a.player_room_ids = b.player_room_ids
    /\ a.player_move_cards = b.player_move_cards
    /\ a.player_weapons = b.player_weapons
    /\ a.player_failures = b.player_failures
    /\ a.doctor_room_id = b.doctor_room_id
    /\ a.current_player_id = b.current_player_id

\* C2: a winner is only set by an attack, and once a winner is set no turn
\* submission changes the winner, a room, a resource, the doctor's room or
\* the active player.
C2_WinnerIsTerminal ==
    has_winner(state) =>
        /\ state.attacker_hist # <<>>
        /\ IF frontend = "web"
           THEN \A entries \in TurnPlans(common) :
                    SameGame(apply_turn_plan(common, state, entries).state, state)
           ELSE \A tokens \in MoveTokenLists(common) :
                    SameGame(do_moves_tokens(common, state, recent_analyzed_turn,
                                             tokens).state, state)

\* the first index of a maximal appraisal: the loop replaces best_turn only on
\* a strictly greater appraisal
FirstMaximal(values) ==
    CHOOSE i \in DOMAIN values :
        \A j \in DOMAIN values :
            \/ values[j].appraisal < values[i].appraisal
            \/ (values[j].appraisal = values[i].appraisal /\ j >= i)

\* the outcome of a node whose children, in scan order, have the given
\* values; a node without children keeps the empty minimum
MinimaxPick(children, values) ==
    LET best == FirstMaximal(values)
        Sum[i \in 0..Len(values)] == IF i = 0 THEN 1 ELSE Sum[i - 1] + values[i].visited
    IN  IF Len(values) = 0
        THEN [appraisal |-> NEG_INFINITY, turn |-> <<>>, visited |-> 1]
        ELSE [appraisal |-> values[best].appraisal,
              turn |-> <<children[best].prev_turn>>,
              visited |-> Sum[Len(values)]]

\* the unpruned search: every child of every node down to the depth limit is
\* searched, in the order find_best_turn_two_players scans the children
RECURSIVE full_minimax(_, _, _)
full_minimax(c, curr_state, depth) ==
    IF has_winner(curr_state) \/ depth = 0
    THEN [appraisal |-> heuristic_score(c, curr_state, curr_state.current_player_id),
          turn |-> <<curr_state.prev_turn>>,
          visited |-> 1]
    ELSE LET Negamax(child_state, sub) ==
                 [appraisal |-> IF curr_state.current_player_id
                                   = child_state.current_player_id
                                THEN sub.appraisal ELSE -sub.appraisal,
                  visited |-> sub.visited]
             ChildValue(child_state) ==
                 CHOOSE v \in {Negamax(child_state, sub) :
                                  sub \in {full_minimax(c, child_state, depth - 1)}} : TRUE
             Values(children) ==
                 [i \in 1..Len(children) |->
                     ChildValue(children[i])]
         IN  CHOOSE picked \in
                 {MinimaxPick(children, values) :
                     <<children, values>> \in
                         {<<chs, Values(chs)>> :
                             chs \in {two_player_children(c, curr_state, depth)}}} : TRUE

C4_NoStrangerTurnPending ==
    \A turn \in LegalTurns(common, state) :
        LET after == after_normal_turn(common, state, turn, TRUE)
        IN  has_winner(after) \/ get_player_type(common, after.current_player_id) = "Normal"

\* a turn was applied that ran through two stranger sub-turns in a row: the
\* two states before this one waited for a stranger, both inside the apply
C4_Witness ==
    /\ ~has_winner(state)
    /\ get_player_type(common, state.current_player_id) = "Normal"
    /\ state.prev_state # <<>>
    /\ get_player_type(common, state.prev_state[1].current_player_id) = "Stranger"
    /\ state.prev_state[1].prev_state # <<>>
    /\ get_player_type(common, state.prev_state[1].prev_state[1].current_player_id)
         = "Stranger"
    /\ state.prev_state[1].prev_state[1].prev_state # <<>>

\* C5: check_normal_turn never aborts; it rejects every turn with a player
\* id outside the roster or a room id that is not a room of the board, and
\* every turn that moves a normal player other than the active one; a turn
\* of the active player and strangers is not rejected for controllability.
C5_CheckRejectsBadIds ==
    \A turn \in ClaimTurns(common) :
        LET r == check_normal_turn(common, state, turn)
            moves == SeqToSet(turn)
            rooms == SeqToSet(common.board.room_ids)
            OutsideRoster(mv) == mv.player_id \notin 0..(common.num_all_players - 1)
            OtherNormal(mv) == /\ ~OutsideRoster(mv)
                               /\ mv.player_id # state.current_player_id
                               /\ ~(has_strangers(common) /\ mv.player_id % 2 = 1)
        IN  /\ r \notin {"panic: index out of bounds",
                        "panic: attempt to add with overflow"}
            /\ (\E mv \in moves : OutsideRoster(mv) \/ mv.dest_room_id \notin rooms)
                  => r \in {"invalid playerId", "invalid roomId"}
            /\ (\E mv \in moves : OtherNormal(mv)) => r # "ok"
            /\ (\A mv \in moves : /\ ~OutsideRoster(mv)
                                  /\ mv.dest_room_id \in rooms
                                  /\ ~OtherNormal(mv))
                  => r \in {"ok", "used too many move points"}

\* the summed distance of a turn whose ids are all valid, each move measured
\* from the room the piece stands in
SummedDistance(c, s, turn) ==
    IF Len(turn) = 0 THEN 0
    ELSE IF Len(turn) = 1
    THEN c.board.distance[s.player_room_ids[turn[1].player_id]][turn[1].dest_room_id]
    ELSE c.board.distance[s.player_room_ids[turn[1].player_id]][turn[1].dest_room_id]
           + c.board.distance[s.player_room_ids[turn[2].player_id]][turn[2].dest_room_id]

\* C6: a turn is rejected for its distance exactly when max(summed distance
\* - 1, 0) is greater than the active player's move cards, whichever pieces
\* it moves.
C6_BudgetRejection ==
    \A turn \in WellFormedTurns(common) :
        LET r == check_normal_turn(common, state, turn)
            total == SummedDistance(common, state, turn)
            needed == IF total - 1 > 0 THEN total - 1 ELSE 0
            over == needed * CardUnit > state.player_move_cards[state.current_player_id]
        IN  /\ (r = "used too many move points") <=> over
            /\ over => r # "ok"

\* a turn was rejected for its distance after the active player had spent
\* move cards
C6_Witness ==
    /\ reply = "used too many move points"
    /\ state.player_move_cards[state.current_player_id] < PLAYER_STARTING_MOVE_CARDS
    /\ state.player_move_cards[state.current_player_id] >= CardUnit

TurnRejections ==
    {"invalid playerId", "invalid roomId", "used too many move points",
     "invalid player in move", "tried to move non-stranger",
     "Doctor cannot be moved.", "appears more than once in the turn plan."}

\* C7: a request that rejects a turn leaves every field of the game state
\* as it was.
C7_RejectedTurnKeepsState ==
    [][reply' \in TurnRejections => state' = state]_vars

\* a turn was rejected in a game that had turns applied
C7_Witness ==
    /\ reply \in TurnRejections
    /\ state.turn_id > 1

\* the turns the rules allow the active player of a running game
ExpectedTurns(c, s) ==
    LET cur == s.current_player_id
        rooms == SeqToSet(c.board.room_ids)
        budget == (s.player_move_cards[cur] \div CardUnit) + 1
        strangers == IF has_strangers(c)
                     THEN {allied_stranger(cur), opposing_stranger(cur)} ELSE {}
        Dist(p, r) == c.board.distance[s.player_room_ids[p]][r]
        Alone(p) == {<<PlayerMove(p, r)>> : r \in {x \in rooms : Dist(p, x) <= budget}}
        alone == UNION {Alone(p) : p \in {cur} \cup strangers}
        pairs == IF has_strangers(c) /\ s.player_move_cards[cur] > 0
                 THEN {<<cur, allied_stranger(cur)>>, <<cur, opposing_stranger(cur)>>,
                       <<allied_stranger(cur), opposing_stranger(cur)>>}
                 ELSE {}
        Both(pair) ==
            {<<PlayerMove(pair[1], ra), PlayerMove(pair[2], rb)>> :
                <<ra, rb>> \in {d \in rooms \X rooms :
                                   /\ d[1] # s.player_room_ids[pair[1]]
                                   /\ d[2] # s.player_room_ids[pair[2]]
                                   /\ Dist(pair[1], d[1]) + Dist(pair[2], d[2]) <= budget}}
    IN  alone \cup UNION {Both(pair) : pair \in pairs}

\* C8: on a running game possible_turns lists no turn twice and lists
\* exactly the single moves within the distance allowed and, with a move
\* budget above zero, the pairs of real moves within it.
C8_PossibleTurnsExact ==
    ~has_winner(state) =>
        LET turns == possible_turns(common, state)
        IN  /\ \A i \in 1..Len(turns) : \A j \in 1..Len(turns) :
                   turns[i] = turns[j] => i = j
            /\ SeqToSet(turns) = ExpectedTurns(common, state)

\* the room of the active piece of s can be seen from the room of another piece
SeenFromAnotherPiece(c, s) ==
    \E p \in player_ids(c) :
        /\ p # s.current_player_id
        /\ c.board.sight[s.player_room_ids[p]][s.player_room_ids[s.current_player_id]]

\* the positions best_action_allowed is asked about: the game as it stands
\* and after the moves of each turn the active player may make
PositionsAfterMoves(c, s) ==
    {s} \cup {ApplyMoves(c, s, turn, 1, FALSE).state : turn \in LegalTurns(c, s)}

\* C9: where the active piece's room is seen from the room of another piece,
\* best_action_allowed is None, also in the doctor's room.
C9_SeenMeansNoAction ==
    \A m \in PositionsAfterMoves(common, state) :
        SeenFromAnotherPiece(common, m)
          => \A moved_stranger_that_saw_doctor \in BOOLEAN :
                best_action_allowed(common, m, moved_stranger_that_saw_doctor) = "None"

\* the last turn left its mover in the doctor's room in sight of another
\* piece, and no attack was made
C9_Witness ==
    /\ state.prev_state # <<>>
    /\ LET before == state.prev_state[1]
           m == ApplyMoves(common, before, state.prev_turn, 1, FALSE).state
       IN  /\ is_normal_turn(common, before)
           /\ m.player_room_ids[m.current_player_id] = m.doctor_room_id
           /\ SeenFromAnotherPiece(common, m)
           /\ state.attacker_hist = before.attacker_hist

\* C10: on a finished game heuristic_score is WIN for every player id of
\* the winning side and LOSS for every other player id.
C10_TerminalScoreBySide ==
    has_winner(state) =>
        \A p \in player_ids(common) :
            heuristic_score(common, state, p)
              = IF to_normal_player_id(p, common.num_normal_players)
                     = to_normal_player_id(state.winner, common.num_normal_players)
                THEN HEURISTIC_SCORE_WIN
                ELSE HEURISTIC_SCORE_LOSS

\* C11: a search to depth 0 returns the heuristic score of the state for its
\* active player, no turn, and the state itself as ending state, in the
\* two-player and in the N-player variant.
C11_DepthZeroIsLeaf ==
    LET found == find_best_turn(common, state, 0, "never")
    IN  /\ found.result.appraisal = heuristic_score(common, state, state.current_player_id)
        /\ found.result.turn = <<>>
        /\ found.result.ending_state = <<state>>

\* depth limits of the searches the claims run on every state of a session
ClaimLevels == {1, 2}

\* C12: a search of a game without a winner, to a depth of at least 1 and
\* with a token cancelled before the call, visits exactly one state and
\* returns the empty minimum: no turn, the minimal appraisal.
C12_CancelledBeforeStart ==
    ~has_winner(state) =>
        \A level \in ClaimLevels :
            LET found == find_best_turn(common, state, level, "cancelled")
            IN  /\ found.visited = 1
                /\ found.result.turn = <<>>
                /\ found.result.appraisal = NEG_INFINITY

\* the states the game can be in after at most depth further turns
RECURSIVE Descendants(_, _, _)
Descendants(c, s, depth) ==
    {s} \cup (IF depth = 0 THEN {}
              ELSE UNION {Descendants(c, child, depth - 1) :
                             child \in SeqToSet(child_states_of(c, s))})

\* the tokens of the searches the claims run: never cancelled, cancelled
\* before the call
ClaimTokens == {"never", "cancelled"}

\* a turn the result carries is a possible turn of the root, the ending state
\* follows from playing it first, and the appraisal is the score of that
\* ending state for the root's active player
ConsistentResult(c, root, level, result) ==
    result.turn # <<>> =>
        /\ result.turn[1] \in SeqToSet(possible_turns(c, root))
        /\ result.ending_state # <<>>
        /\ result.ending_state[1]
             \in Descendants(c, game_after_turn(c, root, result.turn[1]), level - 1)
        /\ result.appraisal
             = heuristic_score(c, result.ending_state[1], root.current_player_id)

\* C13: whatever a search returns, cancelled or not, is a consistent pairing
\* of turn, ending state and appraisal.
C13_ResultIsConsistent ==
    \A level \in 0..2 : \A token \in ClaimTokens :
        ConsistentResult(common, state, level,
                         find_best_turn(common, state, level, token).result)

\* C14: for every two-player state, finished or not, and every depth the
\* search run when parallelization is not 1 returns the turn and the
\* appraisal of the serial two-player search.
C14_ParallelEqualsSerial ==
    num_players(common) = 2 =>
        \A level \in ClaimLevels :
            LET serial == find_best_turn_two_players(common, state, level, "never",
                                                     ALPHA_INITIAL, BETA_INITIAL).result
                parallel == find_best_turn_two_players_parallel_prioritized(
                                common, state, level, "never")
            IN  /\ parallel.turn = serial.turn
                /\ parallel.appraisal = serial.appraisal

\* C15: under every interleaving of get_alpha and update calls of the
\* workers the stored alpha never decreases, and every update(val) returns
\* max(alpha found, val) and leaves that value stored.
C15_AlphaNeverDecreases ==
    [][/\ locked_alpha' >= locked_alpha
       /\ \A w \in Workers :
             (worker[w].pc = "update_stored" /\ worker'[w].pc = "idle")
               => /\ worker'[w].ret = Max2(worker[w].seen, worker[w].val)
                  /\ locked_alpha' = worker'[w].ret]_vars

\* both workers have returned from update: one raised alpha, the other came
\* later with a lower val and got the higher alpha back
C15_Witness ==
    /\ lock_holder = 0
    /\ \E w1 \in Workers : \E w2 \in Workers \ {w1} :
          /\ worker[w1].last = "update"
          /\ worker[w1].val > worker[w1].seen
          /\ worker[w2].last = "update"
          /\ worker[w2].seen = worker[w1].val
          /\ worker[w2].val < worker[w2].seen
          /\ worker[w2].ret = worker[w1].val
          /\ locked_alpha = worker[w1].val

\* C16: the exported list of normal turns determines the state: importing
\* what the handle exports, on the same board, is accepted and restores the
\* rooms, resources, strengths, doctor room, active player, winner, turn
\* counter and attack history of the state.
C16_ExportedTurnsRestoreState ==
    frontend = "web" =>
        LET imported == import_state_json(common, state, normal_setup,
                            export_state_json(common, state, normal_setup))
        IN  /\ imported.reply = <<>>
            /\ StateEq(imported.state, state)
            /\ imported.state.turn_id = state.turn_id
            /\ imported.state.attacker_hist = state.attacker_hist

\* a game with two normal turns in its history, strangers' turns between
\* them and an attack made
C16_Witness ==
    /\ frontend = "web"
    /\ Len(collect_normal_turns(common, state)) >= 2
    /\ Len(StatesOldestFirst(state)) > 3
    /\ state.attacker_hist # <<>>

\* the turns a running program holds: the turn that led to the state, the
\* normal turns of its history and the turns the player to move may take
TurnsHeld ==
    {state.prev_turn}
      \cup SeqToSet(collect_normal_turns(common, state))
      \cup SeqToSet(possible_turns(common, state))

\* the text of the turn is one move directive whose moves are the turn's
NotationRoundTrips(turn) ==
    LET rendered == player_moves_to_nice_string(turn)
        directives == move_directives(rendered.text)
    IN  /\ ~rendered.panics
        /\ Len(directives) = 1
        /\ parse_move_text_tokens(state, directives[1]) =
               [has_parse_errors |-> FALSE, moves |-> turn]

\* C17: the turn notation round-trips: the rendered text of a turn, read
\* back as a turn submission, yields the turn's moves in the same order.
C17_NotationRoundTrips == \A turn \in TurnsHeld : NotationRoundTrips(turn)

\* C18: after_turn(turn, true) leaves the receiver as it was and returns the
\* successor, after_turn(turn, false) makes the receiver the successor, and
\* the successor is the same state in both: checked for every turn the
\* player to move may take.
C18_AfterTurnInPlaceOrCopy ==
    \A i \in 1..Len(possible_turns(common, state)) :
        LET turn == possible_turns(common, state)[i]
            copied == after_turn(common, state, turn, TRUE)
            in_place == after_turn(common, state, turn, FALSE)
        IN  /\ copied.receiver = state
            /\ in_place.receiver # state
            /\ in_place.receiver = copied.returned
            /\ in_place.returned = copied.returned
            /\ copied.returned # state

\* a state with a previous state and an attack in its history whose player
\* has a turn of two moves to take
C18_Witness ==
    /\ state.prev_state # <<>>
    /\ state.attacker_hist # <<>>
    /\ \E i \in 1..Len(possible_turns(common, state)) :
          /\ Len(possible_turns(common, state)[i]) = 2
          /\ after_turn(common, state, possible_turns(common, state)[i], TRUE).returned.turn_id
               > state.turn_id + 1

\* the rooms a walk of at most k doors from the room `from` ends in
RECURSIVE RoomsWithin(_, _, _)
RoomsWithin(board, from, k) ==
    IF k = 0 THEN {from}
    ELSE LET near == RoomsWithin(board, from, k - 1)
         IN  near \cup {room \in SeqToSet(board.room_ids) :
                           \E via \in near : board.adjacency[via][room]}

\* the length of a shortest path between two rooms, doors of weight 1, or
\* the sentinel where there is no path
ShortestPathLength(board, from, to) ==
    LET lengths == {k \in 0..Len(board.room_ids) : to \in RoomsWithin(board, from, k)}
    IN  IF lengths = {} THEN UNREACHABLE_DISTANCE
        ELSE CHOOSE k \in lengths : \A other \in lengths : k <= other

\* C19: the distance matrix is exact: between every two rooms of the board,
\* a room with id 0 included, the distance is the length of a shortest path,
\* 0 from a room to itself and the sentinel exactly where there is no path.
C19_DistanceIsExact ==
    \A a \in SeqToSet(common.board.room_ids) : \A b \in SeqToSet(common.board.room_ids) :
        common.board.distance[a][b] = ShortestPathLength(common.board, a, b)

\* C20: on every board the distance from a room to itself is 0 and the
\* distances obey the triangle inequality.
C20_DistanceIsMetric ==
    LET rooms == SeqToSet(common.board.room_ids)
        distance == common.board.distance
    IN  /\ \A r \in rooms : distance[r][r] = 0
        /\ \A a \in rooms : \A b \in rooms : \A c \in rooms :
              distance[a][c] <= distance[a][b] + distance[b][c]

ClaimDeltas == (-5..5) \cup {I32_MAX - 1, I32_MAX, 1 - I32_MAX, -I32_MAX}

\* next_room_id returns (no overflow panic) a room of the list
NextRoomIdReturns(room_id, delta, room_ids) ==
    /\ ~(overflow_checks /\ NextRoomIdOverflows(room_id, delta, room_ids))
    /\ next_room_id(room_id, delta, room_ids) \in SeqToSet(room_ids)

\* C22: next_room_id is a cyclic bijection on the sorted list of room ids:
\* for every room r and every delta k, stepping by +k and then by -k comes
\* back to r, and a negative delta still gives a room of the list.
C22_NextRoomIdRoundTrip ==
    LET room_ids == common.board.room_ids
    IN  \A r \in SeqToSet(room_ids) : \A k \in ClaimDeltas :
            /\ NextRoomIdReturns(r, k, room_ids)
            /\ NextRoomIdReturns(next_room_id(r, k, room_ids), -k, room_ids)
            /\ next_room_id(next_room_id(r, k, room_ids), -k, room_ids) = r

\* the (sub-)turns the history of the game records: the state each began in
\* and the state it ended in
ResolvedTurns ==
    LET chain == StatesOldestFirst(state)
    IN  {<<chain[i], chain[i + 1]>> : i \in 1..(Len(chain) - 1)}

\* the pieces in cyclic id order from the piece after p, the first one first
CyclicOrderAfter(p, n) == [i \in 1..n |-> (p + i) % n]

\* the player the rule names after a turn of p that began in `before` and
\* left the pieces and the doctor as in `after`
NextActivePlayer(c, before, after) ==
    LET n == c.num_all_players
        p == before.current_player_id
        order == CyclicOrderAfter(p, n)
        InDoctorRoom(i) == after.player_room_ids[order[i]] = after.doctor_room_id
    IN  IF before.turn_id < n \/ ~\E i \in 1..n : InDoctorRoom(i)
        THEN (p + 1) % n
        ELSE order[CHOOSE i \in 1..n : InDoctorRoom(i) /\ \A j \in 1..(i - 1) : ~InDoctorRoom(j)]

\* C23: after a (sub-)turn of player p that ends without a winner the active
\* player is (p+1) mod N in the first round or when no piece is in the
\* doctor's new room, and otherwise the first piece in cyclic id order from
\* (p+1) mod N that is in the doctor's new room.
C23_NextActivePlayer ==
    \A turn \in ResolvedTurns :
        ~has_winner(turn[2])
          => turn[2].current_player_id = NextActivePlayer(common, turn[1], turn[2])

\* the history holds a turn after which a piece in the doctor's new room was
\* activated out of rotation, and a turn past the first round after which
\* nobody was in the doctor's new room
C23_Witness ==
    /\ \E turn \in ResolvedTurns :
          /\ ~has_winner(turn[2])
          /\ turn[2].current_player_id
               # (turn[1].current_player_id + 1) % common.num_all_players
    /\ \E turn \in ResolvedTurns :
          /\ ~has_winner(turn[2])
          /\ turn[1].turn_id >= common.num_all_players
          /\ \A q \in player_ids(common) :
                turn[2].player_room_ids[q] # turn[2].doctor_room_id

\* C24: apply_turn terminates: whenever a forced sub-turn of an auxiliary
\* piece is due, a state follows in which a normal player is active or the
\* winner is set; the chain of forced sub-turns is finite.
C24_ForcedTurnsEnd ==
    (~has_winner(state) /\ ~is_normal_turn(common, state))
        ~> (has_winner(state) \/ is_normal_turn(common, state))

\* a chain has ended in which the doctor, past the first round, walked into
\* the room of an auxiliary piece and so gave it a forced sub-turn right after
\* the forced sub-turn of another
C24_Witness ==
    LET chain == StatesOldestFirst(state)
        n == Len(chain)
    IN  /\ n >= 3
        /\ has_winner(state) \/ is_normal_turn(common, state)
        /\ ~is_normal_turn(common, chain[n - 1])
        /\ ~is_normal_turn(common, chain[n - 2])
        /\ chain[n - 2].turn_id >= common.num_all_players

\* the room before r in the cyclic order of the board's room list
RoomBefore(c, r) ==
    LET i == Position(c.board.room_ids, r)
    IN  c.board.room_ids[IF i = 1 THEN Len(c.board.room_ids) ELSE i - 1]

\* the active piece of s stands in the doctor's room and no other piece
\* sees its room
PositionedToAttack(c, s) ==
    LET p == s.current_player_id
    IN  /\ s.player_room_ids[p] = s.doctor_room_id
        /\ \A q \in player_ids(c) \ {p} :
               ~c.board.sight[s.player_room_ids[p]][s.player_room_ids[q]]

\* the forced sub-turns the game resolved: the state each began in and the
\* state it ended in
ResolvedStrangerTurns == {turn \in ResolvedTurns : ~is_normal_turn(common, turn[1])}

\* C25: on its forced sub-turn an auxiliary piece that stands in the doctor's
\* room unseen by every other piece stays and attacks; otherwise it retreats
\* exactly one room backwards in the cyclic room order; the sub-turn leaves
\* the piece's cards as they were (no loot) and every other piece's room.
C25_StrangerSubTurn ==
    \A turn \in ResolvedStrangerTurns :
        LET p == turn[1].current_player_id
            room == turn[1].player_room_ids[p]
        IN  /\ PositionedToAttack(common, turn[1])
                 => /\ turn[2].player_room_ids[p] = room
                    /\ turn[2].attacker_hist = Append(turn[1].attacker_hist, p)
            /\ ~PositionedToAttack(common, turn[1])
                 => turn[2].player_room_ids[p] = RoomBefore(common, room)
            /\ turn[2].player_move_cards[p] = turn[1].player_move_cards[p]
            /\ turn[2].player_weapons[p] = turn[1].player_weapons[p]
            /\ turn[2].player_failures[p] = turn[1].player_failures[p]
            /\ \A q \in player_ids(common) \ {p} :
                   turn[2].player_room_ids[q] = turn[1].player_room_ids[q]

\* the game resolved a forced sub-turn of a piece positioned to attack, one
\* of a piece that retreated and did not attack, and one of a piece that
\* retreated into an attack
C25_Witness ==
    /\ \E turn \in ResolvedStrangerTurns : PositionedToAttack(common, turn[1])
    /\ \E turn \in ResolvedStrangerTurns :
           /\ ~PositionedToAttack(common, turn[1])
           /\ turn[2].attacker_hist = turn[1].attacker_hist
    /\ \E turn \in ResolvedStrangerTurns :
           /\ ~PositionedToAttack(common, turn[1])
           /\ turn[2].attacker_hist # turn[1].attacker_hist

\* the room k places after r in the cyclic order of the board's room list
RoomAdvanced(c, r, k) ==
    c.board.room_ids[((Position(c.board.room_ids, r) - 1 + k) % Len(c.board.room_ids)) + 1]

\* the (sub-)turns the game resolved, and those of them that set no winner
NumResolvedTurns == Len(StatesOldestFirst(state)) - 1

NumTurnsWithoutWinner ==
    Cardinality({i \in 1..NumResolvedTurns : ~has_winner(StatesOldestFirst(state)[i + 1])})

\* C26: the turn counter is 1 plus the number of resolved (sub-)turns, the
\* doctor stands in its start room advanced cyclically by the number of
\* resolved (sub-)turns that ended without a winner, and the doctor keeps its
\* room in the (sub-)turn that sets the winner.
C26_TurnCounterAndDoctor ==
    /\ state.turn_id = 1 + NumResolvedTurns
    /\ state.doctor_room_id
         = RoomAdvanced(common, common.board.doctor_start_room_id, NumTurnsWithoutWinner)
    /\ \A turn \in ResolvedTurns :
           has_winner(turn[2]) => turn[2].doctor_room_id = turn[1].doctor_room_id

\* a game that went once round the board's room list or further, with
\* forced sub-turns, and ended with a winner
C26_Witness ==
    /\ has_winner(state)
    /\ NumTurnsWithoutWinner >= Len(common.board.room_ids)
    /\ \E turn \in ResolvedTurns : ~is_normal_turn(common, turn[1])

PlacedStates ==
    {[s EXCEPT !.current_player_id = p, !.doctor_room_id = d] :
        s \in StateHistory(state), p \in player_ids(common),
        d \in SeqToSet(common.board.room_ids)}

\* no other piece sees the room of the active piece of s
UnseenByOthers(c, s) ==
    \A q \in player_ids(c) \ {s.current_player_id} :
        ~c.board.sight[s.player_room_ids[s.current_player_id]][s.player_room_ids[q]]

\* C28: for an active piece no other piece can see, the allowed action is
\* Attack exactly when it stands in the doctor's room; otherwise Loot when
\* its room has no sight of the doctor's room and None when it has.
C28_ActionOfUnseenPiece ==
    \A s \in PlacedStates : \A moved_stranger_that_saw_doctor \in BOOLEAN :
        UnseenByOthers(common, s)
          => LET room == s.player_room_ids[s.current_player_id]
                 action == best_action_allowed(common, s, moved_stranger_that_saw_doctor)
             IN  /\ action = "Attack" <=> room = s.doctor_room_id
                 /\ room # s.doctor_room_id
                      => action = IF common.board.sight[room][s.doctor_room_id]
                                  THEN "None" ELSE "Loot"

\* the game went through a state whose active piece was unseen and allowed
\* to attack, one whose active piece was unseen and allowed to loot, and one
\* whose active piece was unseen and allowed neither
C28_Witness ==
    \A action \in {"Attack", "Loot", "None"} :
        \E s \in StateHistory(state) : \E moved_stranger_that_saw_doctor \in BOOLEAN :
            /\ UnseenByOthers(common, s)
            /\ best_action_allowed(common, s, moved_stranger_that_saw_doctor) = action

\* the normal turns the game resolved in which nobody attacked: the state
\* each began in and the state it left before any forced sub-turn
NormalTurnsWithoutAttack ==
    {turn \in ResolvedTurns : /\ is_normal_turn(common, turn[1])
                              /\ turn[2].attacker_hist = turn[1].attacker_hist}

\* the pieces as a normal turn left them, before its doctor phase
BeforeDoctorPhase(before, after) ==
    [after EXCEPT !.current_player_id = before.current_player_id,
                  !.doctor_room_id = before.doctor_room_id]

\* what the action of a normal turn adds to a card count of the active player
LootGain(before, after, per_loot) ==
    IF best_action_allowed(common, BeforeDoctorPhase(before, after), FALSE) = "Loot"
    THEN per_loot ELSE 0

\* C29: a normal turn without an attack takes max(total distance - 1, 0)
\* move cards from the active player and, when its action is Loot, adds the
\* per-loot increment to the active player's move cards, weapons and failures;
\* the cards of every other player and every strength stay as they were, and
\* only pieces the turn names have changed room.
C29_NormalTurnFrame ==
    \A turn \in NormalTurnsWithoutAttack :
        LET before == turn[1]
            after == turn[2]
            p == before.current_player_id
            moves == after.prev_turn
            total_dist == TurnTotalDist(common, before, moves)
        IN  /\ after.player_move_cards[p]
                 = before.player_move_cards[p] - Max2(total_dist - 1, 0) * CardUnit
                     + LootGain(before, after, MOVE_CARDS_PER_LOOT)
            /\ after.player_weapons[p]
                 = before.player_weapons[p] + LootGain(before, after, WEAPONS_PER_LOOT)
            /\ after.player_failures[p]
                 = before.player_failures[p] + LootGain(before, after, FAILURES_PER_LOOT)
            /\ \A q \in player_ids(common) \ {p} :
                   /\ after.player_move_cards[q] = before.player_move_cards[q]
                   /\ after.player_weapons[q] = before.player_weapons[q]
                   /\ after.player_failures[q] = before.player_failures[q]
            /\ after.player_strengths = before.player_strengths
            /\ \A q \in player_ids(common) :
                   after.player_room_ids[q] # before.player_room_ids[q]
                     => \E i \in 1..Len(moves) : moves[i].player_id = q

\* the game resolved a normal turn of two moves that cost a move card and
\* looted, and a normal turn that neither attacked nor looted
C29_Witness ==
    /\ \E turn \in NormalTurnsWithoutAttack :
           /\ Len(turn[2].prev_turn) = 2
           /\ TurnTotalDist(common, turn[1], turn[2].prev_turn) >= 2
           /\ LootGain(turn[1], turn[2], 1) = 1
    /\ \E turn \in NormalTurnsWithoutAttack : LootGain(turn[1], turn[2], 1) = 0

\* the (sub-)turns the game resolved in which the active piece attacked
ResolvedAttacks ==
    {turn \in ResolvedTurns : turn[2].attacker_hist # turn[1].attacker_hist}

\* the entries of piece p in an attack history
NumAttacks(hist, p) == Cardinality({i \in 1..Len(hist) : hist[i] = p})

\* the clovers of the cards of piece q, as counted before an attack and as
\* q can spend them (a count below zero is not spent)
CountedClovers(s, q) ==
    (s.player_failures[q] * CLOVERS_PER_FAILURE[1]) \div CLOVERS_PER_FAILURE[2]
      + s.player_weapons[q] + s.player_move_cards[q]

SpendableClovers(s, q) ==
    (Max2(s.player_failures[q], 0) * CLOVERS_PER_FAILURE[1]) \div CLOVERS_PER_FAILURE[2]
      + Max2(s.player_weapons[q], 0) + Max2(s.player_move_cards[q], 0)

\* the pieces that defend against an attack of the active piece of s
Defenders(c, s) ==
    IF has_strangers(c) THEN {opposing_normal_player(s.current_player_id)}
    ELSE player_ids(c) \ {s.current_player_id}

\* the clovers of the defenders, counted and spendable
RECURSIVE CountedSum(_, _)
CountedSum(s, pieces) ==
    IF pieces = {} THEN 0
    ELSE LET q == CHOOSE x \in pieces : TRUE
         IN  CountedClovers(s, q) + CountedSum(s, pieces \ {q})

RECURSIVE SpendableSum(_, _)
SpendableSum(s, pieces) ==
    IF pieces = {} THEN 0
    ELSE LET q == CHOOSE x \in pieces : TRUE
         IN  SpendableClovers(s, q) + SpendableSum(s, pieces \ {q})

\* the budget of an attack of the active piece of s whose strength counts as
\* `strength`: one clover per strength point and the bonus of a weapon used
BudgetOfStrength(c, s, strength) ==
    LET p == s.current_player_id
        armed == /\ s.player_weapons[p] >= CardUnit
                 /\ IF has_strangers(c) THEN is_normal_turn(c, s)
                    ELSE CountedSum(s, Defenders(c, s))
                           <= 2 * strength * CardUnit
    IN  strength * CardUnit + (IF armed THEN STRENGTH_PER_WEAPON ELSE 0)

\* an attack with that budget gets past the defenders' clovers
BudgetWins(c, s, budget) ==
    \/ budget > SpendableSum(s, Defenders(c, s))
    \/ ~has_strangers(c) /\ budget > CountedSum(s, Defenders(c, s))

\* move cards the other pieces are given for an attack that is tried out
ClaimMoveCards == {0, CardUnit, 2 * CardUnit, 3 * CardUnit}

\* the states of the game so far, and each of them with every piece in turn
\* as the attacker and the other pieces holding nothing but m move cards
AttackInputs ==
    StateHistory(state)
      \cup {[s EXCEPT !.current_player_id = p,
                      !.player_move_cards = [q \in player_ids(common) |->
                                                IF q = p THEN @[q] ELSE m],
                      !.player_weapons = [q \in player_ids(common) |->
                                             IF q = p THEN @[q] ELSE 0],
                      !.player_failures = [q \in player_ids(common) |->
                                              IF q = p THEN @[q] ELSE 0]] :
               s \in StateHistory(state), p \in player_ids(common), m \in ClaimMoveCards}

\* the decision of an attack of the active piece of s at a given strength
WinsAtStrength(c, s, strength) == BudgetWins(c, s, BudgetOfStrength(c, s, strength))

ClaimFailures == {0, CardUnit, 4 * CardUnit}

ClaimWeapons == {0, WEAPONS_PER_LOOT, 2 * CardUnit}

ClaimDefenderMoves == {0, CardUnit}

\* the state of the game with each piece in turn as the attacker and the
\* normal player that opposes it holding f failures, w weapons, m move cards
DefendedInputs ==
    {[state EXCEPT !.current_player_id = p,
                   !.player_failures[opposing_normal_player(p)] = f,
                   !.player_weapons[opposing_normal_player(p)] = w,
                   !.player_move_cards[opposing_normal_player(p)] = m] :
        p \in player_ids(common), f \in ClaimFailures, w \in ClaimWeapons,
        m \in ClaimDefenderMoves}

\* 24 times the clovers of f failures, w weapons and m move cards
Clovers24(f, w, m) == 50 * f + 24 * w + 24 * m

\* C31: in a game with strangers the budget of an attack is the strength
\* before the attack, plus the weapon bonus exactly when the attacker is a
\* normal player with one weapon card or more, which it then gives up; the
\* opposing normal player spends failures, weapons only when no failure is
\* left and move cards only when no weapon is left; the attack succeeds
\* exactly when the budget exceeds the clovers of the defender's cards, and
\* a failed attack costs the defender cards worth exactly the budget.
C31_AttackWithStrangers ==
    has_strangers(common)
      => \A s \in DefendedInputs :
           LET p == s.current_player_id
               d == opposing_normal_player(p)
               attack == process_attack(common, s)
               after == attack.state
               armed == is_normal_turn(common, s) /\ s.player_weapons[p] >= CardUnit
               budget == s.player_strengths[p] * CardUnit
                           + (IF armed THEN STRENGTH_PER_WEAPON ELSE 0)
               spent_f == s.player_failures[d] - after.player_failures[d]
               spent_w == s.player_weapons[d] - after.player_weapons[d]
               spent_m == s.player_move_cards[d] - after.player_move_cards[d]
               total24 == Clovers24(s.player_failures[d], s.player_weapons[d],
                                    s.player_move_cards[d])
           IN  /\ after.player_weapons[p]
                    = s.player_weapons[p] - (IF armed THEN CardUnit ELSE 0)
               /\ spent_f >= 0 /\ spent_w >= 0 /\ spent_m >= 0
               /\ spent_w > 0 => after.player_failures[d] = 0
               /\ spent_m > 0 => after.player_weapons[d] = 0
               /\ attack.success <=> 24 * budget > total24
               /\ Clovers24(spent_f, spent_w, spent_m)
                    = IF attack.success THEN total24 ELSE 24 * budget
               /\ \A q \in player_ids(common) \ {p, d} :
                      /\ after.player_failures[q] = s.player_failures[q]
                      /\ after.player_weapons[q] = s.player_weapons[q]
                      /\ after.player_move_cards[q] = s.player_move_cards[q]
               /\ after.player_failures[p] = s.player_failures[p]
               /\ after.player_move_cards[p] = s.player_move_cards[p]

\* a game with strangers in which a normal player has attacked, with attacks
\* to try out that an armed normal player wins, that a stranger loses to
\* move cards alone, and that stop in the middle of the defender's weapons
C31_Witness ==
    /\ has_strangers(common)
    /\ state.attacker_hist # <<>>
    /\ \E s \in DefendedInputs :
           /\ is_normal_turn(common, s)
           /\ s.player_weapons[s.current_player_id] >= CardUnit
           /\ process_attack(common, s).success
    /\ \E s \in DefendedInputs :
           LET d == opposing_normal_player(s.current_player_id)
               after == process_attack(common, s).state
           IN  /\ ~is_normal_turn(common, s)
               /\ s.player_failures[d] = 0 /\ s.player_weapons[d] = 0
               /\ after.player_move_cards[d] = 0
               /\ ~process_attack(common, s).success
    /\ \E s \in DefendedInputs :
           LET d == opposing_normal_player(s.current_player_id)
               after == process_attack(common, s).state
           IN  /\ s.player_failures[d] > 0
               /\ after.player_failures[d] = 0
               /\ after.player_weapons[d] > 0
               /\ after.player_weapons[d] < s.player_weapons[d]

\* holdings <<failures, weapons, move cards>> a defender is given for an
\* attack that is tried out
ClaimHoldings ==
    {<<0, 0, 0>>, <<CardUnit, 0, 0>>, <<0, WEAPONS_PER_LOOT, CardUnit>>,
     <<4 * CardUnit, 2 * CardUnit, 2 * CardUnit>>}

\* the pieces met going counter-clockwise from p: p-1, p-2, ... modulo n
CounterClockwiseFrom(p, n) == [i \in 1..(n - 1) |-> (p + n - i) % n]

\* the state of a game of three players with each player in turn as the
\* attacker and the two others holding h1 (the first counter-clockwise) and h2
WalkInputs ==
    {[state EXCEPT
        !.current_player_id = p,
        !.player_failures = [q \in player_ids(common) |->
            IF q = p THEN @[q] ELSE IF q = CounterClockwiseFrom(p, 3)[1] THEN h1[1] ELSE h2[1]],
        !.player_weapons = [q \in player_ids(common) |->
            IF q = p THEN @[q] ELSE IF q = CounterClockwiseFrom(p, 3)[1] THEN h1[2] ELSE h2[2]],
        !.player_move_cards = [q \in player_ids(common) |->
            IF q = p THEN @[q] ELSE IF q = CounterClockwiseFrom(p, 3)[1] THEN h1[3] ELSE h2[3]]] :
        p \in player_ids(common), h1 \in ClaimHoldings, h2 \in ClaimHoldings}

\* 24 times the clovers of the cards piece q holds in s
HeldClovers24(s, q) ==
    Clovers24(s.player_failures[q], s.player_weapons[q], s.player_move_cards[q])

\* C32: in a game without strangers an attack whose budget exceeds the summed
\* clovers of all other players wins at once and costs no defender a card;
\* otherwise the defenders are visited counter-clockwise from the attacker,
\* each spending failures, then weapons, then move cards, a later defender
\* only when the earlier ones have nothing left, until the budget is used up,
\* and the attack sets no winner.
C32_AttackWithoutStrangers ==
    (~has_strangers(common) /\ common.num_all_players = 3)
      => \A s \in WalkInputs :
           LET p == s.current_player_id
               order == CounterClockwiseFrom(p, 3)
               attack == process_attack(common, s)
               after == attack.state
               defence24 == HeldClovers24(s, order[1]) + HeldClovers24(s, order[2])
               strength == s.player_strengths[p] * CardUnit
               armed == defence24 <= 2 * 24 * strength /\ s.player_weapons[p] >= CardUnit
               budget == strength + (IF armed THEN STRENGTH_PER_WEAPON ELSE 0)
               Spent24(q) == HeldClovers24(s, q) - HeldClovers24(after, q)
               Keeps(q) == /\ after.player_failures[q] = s.player_failures[q]
                           /\ after.player_weapons[q] = s.player_weapons[q]
                           /\ after.player_move_cards[q] = s.player_move_cards[q]
           IN  /\ after.player_weapons[p]
                    = s.player_weapons[p] - (IF armed THEN CardUnit ELSE 0)
               /\ attack.success <=> defence24 < 24 * budget
               /\ attack.success => Keeps(order[1]) /\ Keeps(order[2])
               /\ ~attack.success =>
                    /\ Spent24(order[1]) + Spent24(order[2]) = 24 * budget
                    /\ Spent24(order[2]) > 0 => HeldClovers24(after, order[1]) = 0
                    /\ \A q \in {order[1], order[2]} :
                          /\ after.player_failures[q] <= s.player_failures[q]
                          /\ after.player_weapons[q] <= s.player_weapons[q]
                          /\ after.player_move_cards[q] <= s.player_move_cards[q]
                          /\ after.player_weapons[q] < s.player_weapons[q]
                               => after.player_failures[q] = 0
                          /\ after.player_move_cards[q] < s.player_move_cards[q]
                               => after.player_weapons[q] = 0

\* a game of three players in which an attack was made, with attacks to try
\* out that win at once, that stop at the first defender, and that reach the
\* second defender's cards
C32_Witness ==
    /\ ~has_strangers(common) /\ common.num_all_players = 3
    /\ state.attacker_hist # <<>>
    /\ \E s \in WalkInputs : process_attack(common, s).success
    /\ \E s \in WalkInputs :
           LET order == CounterClockwiseFrom(s.current_player_id, 3)
               after == process_attack(common, s).state
           IN  /\ HeldClovers24(after, order[1]) > 0
               /\ HeldClovers24(after, order[1]) < HeldClovers24(s, order[1])
    /\ \E s \in WalkInputs :
           LET order == CounterClockwiseFrom(s.current_player_id, 3)
               after == process_attack(common, s).state
           IN  /\ HeldClovers24(s, order[1]) > 0
               /\ HeldClovers24(after, order[1]) = 0
               /\ HeldClovers24(after, order[2]) < HeldClovers24(s, order[2])

\* C33: every turn possible_turns lists for a state without a winner is one
\* check_normal_turn accepts in that state, whatever the move cards of the
\* active player, whole or fractional.
C33_PossibleTurnsAreLegal ==
    ~has_winner(state)
      => \A i \in 1..Len(possible_turns(common, state)) :
             check_normal_turn(common, state, possible_turns(common, state)[i]) = "ok"

\* C34: a state without a winner has a possible turn, the active player
\* staying in its room among them, and possible_turns is empty exactly on
\* the states that have a winner.
StayInPlace(s) == <<PlayerMove(s.current_player_id, s.player_room_ids[s.current_player_id])>>

C34_NoDeadlockBeforeEnd ==
    /\ ~has_winner(state)
         => \E i \in 1..Len(possible_turns(common, state)) :
                possible_turns(common, state)[i] = StayInPlace(state)
    /\ (possible_turns(common, state) = <<>>) <=> has_winner(state)

\* C35: in a game played by accepted turns from a start state that holds no
\* negative count, the move cards, weapons and failures of every player are
\* zero or more in every state of the game, the states between the forced
\* stranger sub-turns included; and an attack on defenders who hold few
\* cards or none leaves no count below zero.
NonNegativeCounts(s) ==
    \A p \in DOMAIN s.player_move_cards :
        /\ s.player_move_cards[p] >= 0
        /\ s.player_weapons[p] >= 0
        /\ s.player_failures[p] >= 0

StartState(s) == StatesOldestFirst(s)[1]

C35_CountsNeverNegative ==
    /\ NonNegativeCounts(StartState(state))
         => \A s \in StateHistory(state) : NonNegativeCounts(s)
    /\ \A s \in DefendedInputs \cup WalkInputs :
           NonNegativeCounts(s) => NonNegativeCounts(process_attack(common, s).state)

\* a game in which move cards were paid, a weapon was used and a defender
\* spent failures
C35_Witness ==
    /\ NonNegativeCounts(StartState(state))
    /\ \E p \in DOMAIN state.player_move_cards :
          state.player_move_cards[p] < StartState(state).player_move_cards[p]
    /\ \E p \in DOMAIN state.player_weapons :
          state.player_weapons[p] < StartState(state).player_weapons[p]
    /\ \E p \in DOMAIN state.player_failures :
          state.player_failures[p] < StartState(state).player_failures[p]

\* the appraisal find_best_turn_many_players gives child number i of node s,
\* searched level - 1 turns deep
ChildAppraisal(c, s, i, level) ==
    LET child == child_states_of(c, s)[i]
        sub == find_best_turn_many_players(c, child, s.current_player_id,
                                           level - 1, "never").result
    IN  IF s.current_player_id # child.current_player_id /\ sub.ending_state # <<>>
        THEN heuristic_score(c, sub.ending_state[1], s.current_player_id)
        ELSE sub.appraisal

\* the node returns a child whose appraisal no child of the node exceeds
ReturnsMaximalChild(c, s, analysis_player_id, level) ==
    LET children == child_states_of(c, s)
        found == find_best_turn_many_players(c, s, analysis_player_id, level,
                                             "never").result
    IN  (~has_winner(s) /\ level > 0 /\ children # <<>>)
          => /\ \E i \in 1..Len(children) :
                   /\ found.turn = <<children[i].prev_turn>>
                   /\ found.appraisal = ChildAppraisal(c, s, i, level)
             /\ \A i \in 1..Len(children) :
                   ChildAppraisal(c, s, i, level) <= found.appraisal

RECURSIVE EveryNodeReturnsMaximalChild(_, _, _, _)
EveryNodeReturnsMaximalChild(c, s, analysis_player_id, level) ==
    /\ ReturnsMaximalChild(c, s, analysis_player_id, level)
    /\ (~has_winner(s) /\ level > 0)
         => \A i \in 1..Len(child_states_of(c, s)) :
                EveryNodeReturnsMaximalChild(c, child_states_of(c, s)[i],
                                             s.current_player_id, level - 1)

ManyPlayersLevels == 1..4

\* the state of the game where no count is negative, and that state after sv
\* directives left every player no failure, no weapon and m move cards
ManyPlayersRoots ==
    {s \in {state} : NonNegativeCounts(s)}
      \cup {[state EXCEPT !.player_failures = [q \in player_ids(common) |-> 0],
                          !.player_weapons = [q \in player_ids(common) |-> 0],
                          !.player_move_cards = [q \in player_ids(common) |-> m]] :
               m \in {0, CardUnit}}

\* C36: an N-player search that is not cancelled returns at every node the
\* child whose appraisal is maximal for the node's active player among all
\* children of the node, the appraisal of a child being the score of its
\* ending state for the node's active player when the child has another
\* active player.
C36_ManyPlayersMaximizes ==
    num_players(common) > 2
      => \A level \in ManyPlayersLevels : \A root \in ManyPlayersRoots :
             EveryNodeReturnsMaximalChild(common, root, root.current_player_id, level)

\* child number i of a node is scanned when no earlier iteration of the loop
\* has left it
IsScanned(c, children, i, analysis_player_id, level, curr_player_id) ==
    ~ScanManyPlayers(c, children, 1, i - 1, analysis_player_id, level, "never",
                     curr_player_id,
                     [best_turn |-> empty_minimum, visited |-> 1, broke |-> FALSE]).broke

\* the recursive calls made below a node that is searched, not cancelled
RECURSIVE RecursiveCallsMade(_, _, _, _)
RecursiveCallsMade(c, s, analysis_player_id, level) ==
    IF has_winner(s) \/ level = 0 THEN {}
    ELSE LET children == child_states_of(c, s)
             scanned == {i \in 1..Len(children) :
                           IsScanned(c, children, i, analysis_player_id, level,
                                     s.current_player_id)}
             calls == [i \in scanned |->
                         RecursiveCallManyPlayers(children[i], s.current_player_id, level)]
         IN  {calls[i] : i \in scanned}
               \cup UNION {RecursiveCallsMade(c, calls[i].curr_state,
                                              calls[i].analysis_player_id,
                                              calls[i].analysis_level) : i \in scanned}

\* C37: every recursive call of an N-player search receives the active
\* player of the root as analysis_player_id.
C37_FixedAnalysisPlayer ==
    num_players(common) > 2
      => \A level \in 1..3 :
             \A call \in RecursiveCallsMade(common, state, state.current_player_id, level) :
                 call.analysis_player_id = state.current_player_id

\* find_best_turn_two_players without the sort: every node scans its children
\* in the order of possible_turns
RECURSIVE find_best_turn_two_players_unsorted(_, _, _, _, _)
RECURSIVE ScanUnsorted(_, _, _, _, _, _, _)
ScanUnsorted(c, children, i, level, beta, curr_player_id, loop) ==
    IF i > Len(children) \/ loop.broke THEN loop
    ELSE LET child_is_us == curr_player_id = children[i].current_player_id
             child_alpha == IF child_is_us THEN loop.alpha ELSE -beta
             child_beta == IF child_is_us THEN beta ELSE -loop.alpha
         IN  ScanUnsorted(c, children, i + 1, level, beta, curr_player_id,
                 AfterChildTwoPlayers(children[i], "never", beta, child_is_us, loop,
                     find_best_turn_two_players_unsorted(c, children[i], level - 1,
                                                         child_alpha, child_beta)))

find_best_turn_two_players_unsorted(c, curr_state, level, alpha, beta) ==
    IF has_winner(curr_state) \/ level = 0
    THEN [result |-> from_state(c, curr_state.current_player_id, curr_state), visited |-> 1]
    ELSE LoopResult(ScanUnsorted(c, child_states_of(c, curr_state), 1, level, beta,
                                 curr_state.current_player_id,
                                 [best_turn |-> empty_minimum, alpha |-> alpha,
                                  visited |-> 1, broke |-> FALSE]))

\* depth limits at which the two-player search sorts the children of a node
SortingLevels == {2, 3}

\* C38: the two-player search returns the turn and the appraisal that the
\* same search returns when no node sorts its children, whether or not
\* children have equal values.
C38_SortKeepsResult ==
    num_players(common) = 2
      => \A level \in SortingLevels :
             LET sorted == find_best_turn_two_players(common, state, level, "never",
                                                      ALPHA_INITIAL, BETA_INITIAL).result
                 unsorted == find_best_turn_two_players_unsorted(common, state, level,
                                 ALPHA_INITIAL, BETA_INITIAL).result
             IN  /\ sorted.turn = unsorted.turn
                 /\ sorted.appraisal = unsorted.appraisal

\* the chain of first children a search is followed along, at most
MaxCallDepth == 5

\* the states find_best_turn_two_players is called on below curr_state, each
\* the first child its parent scans
RECURSIVE FirstCallsTwoPlayers(_, _, _, _)
FirstCallsTwoPlayers(c, curr_state, level, fuel) ==
    IF has_winner(curr_state) \/ level = 0 \/ fuel = 0 THEN <<>>
    ELSE LET children == two_player_children(c, curr_state, level)
         IN  IF children = <<>> THEN <<>>
             ELSE <<children[1]>>
                    \o FirstCallsTwoPlayers(c, children[1], level - 1, fuel - 1)

\* the same for find_best_turn_many_players
RECURSIVE FirstCallsManyPlayers(_, _, _, _)
FirstCallsManyPlayers(c, curr_state, level, fuel) ==
    IF has_winner(curr_state) \/ level = 0 \/ fuel = 0 THEN <<>>
    ELSE LET children == child_states_of(c, curr_state)
         IN  IF children = <<>> THEN <<>>
             ELSE <<children[1]>>
                    \o FirstCallsManyPlayers(c, children[1], level - 1, fuel - 1)

\* the same for find_best_turn_two_players_parallel_recursive
RECURSIVE FirstCallsParallelRecursive(_, _, _, _)
FirstCallsParallelRecursive(c, curr_state, level, fuel) ==
    IF has_winner(curr_state) \/ level = 0 \/ fuel = 0 THEN <<>>
    ELSE LET children == two_player_children(c, curr_state, level)
         IN  IF children = <<>> THEN <<>>
             ELSE <<children[1]>>
                    \o FirstCallsParallelRecursive(c, children[1], level - 1, fuel - 1)

\* the states below curr_state that
\* find_best_turn_two_players_parallel_prioritized_bounds reaches through the
\* first child of its sorted children: the front of the queue, searched to
\* level - 1, or its own first child above ANALYSIS_LEVEL_TO_PARALLELIZE
RECURSIVE FirstCallsPrioritizedBounds(_, _, _, _)
FirstCallsPrioritizedBounds(c, curr_state, level, fuel) ==
    LET children == sorted_next_states(c, curr_state, FALSE)
    IN  IF children = <<>> \/ fuel = 0 THEN <<>>
        ELSE IF level <= ANALYSIS_LEVEL_TO_PARALLELIZE
        THEN <<children[1]>>
               \o FirstCallsParallelRecursive(c, children[1], level - 1, fuel - 1)
        ELSE <<children[1]>>
               \o FirstCallsPrioritizedBounds(c, children[1], level - 1, fuel - 1)

\* the chain for find_best_turn with parallelization 1 or another
FirstCalls(c, s, level, parallelization) ==
    IF num_players(c) = 2
    THEN IF parallelization = 1
         THEN FirstCallsTwoPlayers(c, s, level, MaxCallDepth)
         ELSE FirstCallsPrioritizedBounds(c, s, level, MaxCallDepth)
    ELSE FirstCallsManyPlayers(c, s, level, MaxCallDepth)

DepthLimits == 0..3

Parallelizations == {1, 2}

\* C39: whatever the depth limit and the parallelization, find_best_turn
\* searches no state more than depth-limit turns below the root.
C39_DepthLimited ==
    \A level \in DepthLimits : \A parallelization \in Parallelizations :
        Len(FirstCalls(common, state, level, parallelization)) <= level

\* the state a checked turn leaves when the history is recorded
AfterCheckedTurn(turn) == after_normal_turn(common, state, turn, TRUE)

====
